---- MODULE Spec2Model ----
(***************************************************************************)
(* Model of the Watchly recommendation pipeline:                           *)
(*   - _parse_identifier                  (recommendation_service.py)      *)
(*   - RecommendationService.get_recommendations and its helpers           *)
(*   - the TTL memoizing wrappers of app/utils.py                          *)
(*   - BackgroundCatalogUpdater            (catalog_updater.py)            *)
(*                                                                         *)
(* Python strings are modelled as sequences of one-character strings, so   *)
(* that splitting, stripping, prefix tests and number parsing are computed *)
(* rather than assumed.  Python's None is the empty tuple <<>> and a       *)
(* present optional value x is the one-element tuple <<x>>.                *)
(***************************************************************************)
EXTENDS Integers, Sequences, FiniteSets, TLC

VARIABLES
    \* ---- _parse_identifier ----
    p_pc,           \* "start" | "loop" | "done"
    p_identifier,   \* the argument
    p_tokens,       \* decoded.split(",")
    p_i,            \* number of tokens the for loop has taken so far
    p_imdb_id,      \* local imdb_id (optional string)
    p_tmdb_id       \* local tmdb_id (optional integer)

parseVars == <<p_pc, p_identifier, p_tokens, p_i, p_imdb_id, p_tmdb_id>>

VARIABLES
    \* ---- RecommendationService.get_recommendations ----
    a_pc,                        \* "start" | "gather" | "hydrate" | "done"
    library_data,                \* what get_library_items() returns
    content_type,                \* argument (optional string)
    source_items_limit,          \* argument
    recommendations_per_source,  \* argument
    max_results,                 \* argument
    include_watched,             \* argument
    source_items,                \* the seeds
    watched_imdb_ids,            \* exclusion set, IMDB namespace
    watched_tmdb_ids,            \* exclusion set, TMDB namespace
    task_results,                \* what each seed's fetch task has returned
    out_of_order,                \* a fetch finished before one of an earlier seed
    all_recommendation_results,  \* one slot per seed task of the gather
    filtered_tmdb_items,         \* candidates handed to hydration
    detail_outcome,              \* what the detail fetch of each TMDB id gives
    final_recommendations,       \* hydrated metas
    a_result,                    \* the returned list
    a_outcome                    \* "none" | "returned" | "raised"

aggVars == <<a_pc, library_data, content_type, source_items_limit,
             recommendations_per_source, max_results, include_watched,
             source_items, watched_imdb_ids, watched_tmdb_ids,
             task_results, out_of_order,
             all_recommendation_results, filtered_tmdb_items, detail_outcome,
             final_recommendations, a_result, a_outcome>>

VARIABLES
    \* ---- cached_api_call and _api_cache (app/utils.py) ----
    api_cache,   \* _api_cache: its entries, least recently used first
    now,         \* the timer of the cache, in seconds
    ticks,       \* how many times the timer has advanced
    heap,        \* address -> the service instance living there, if any
    calls        \* slot -> the wrapper invocation in progress there, if any
    
cacheVars == <<api_cache, now, ticks, heap, calls>>

VARIABLES
    \* ---- BackgroundCatalogUpdater (catalog_updater.py) ----
    u_task,        \* self._task: index of a loop task, if any
    stop_event,    \* self._stop_event.is_set()
    tasks,         \* every task created by start(), in order of creation
    payloads,      \* what token_store.iter_payloads() yields
    owner_pc,      \* the lifecycle owner: "idle" | "in_stop"
    owner_last,    \* the last call the owner completed
    owner_calls,   \* how many start()/stop() calls the owner has made
    awaited,       \* the task stop() is suspended on, if any
    configured,    \* the interval_seconds argument of __init__
    interval_seconds  \* self.interval_seconds

updVars == <<u_task, stop_event, tasks, payloads, owner_pc, owner_last,
             owner_calls, awaited, configured, interval_seconds>>

VARIABLES
    \* ---- StremioService.get_library_items ----
    l_pc,           \* "start" | "auth" | "fetch" | "loop" | "checking" | "done"
    l_auth_key,     \* self._auth_key (optional string)
    l_upstream,     \* the library collection the Stremio API holds
    watched_items,  \* local watched_items, filtered and sorted
    l_batches,      \* how many batches of the loved scan have been started
    check_candidates,  \* positions in watched_items checked in this batch
    loved_statuses, \* per candidate: "pending" or what is_loved gave
    movies_found,   \* local movies_found
    series_found,   \* local series_found
    loved_items,    \* local loved_items
    l_result,       \* what the call returned (optional)
    l_raised,       \* an exception left the call
    l_failure,      \* the failure the call met before the scan: "none" |
                    \* "auth" | "network" | "malformed"
    check_errors    \* positions in watched_items whose is_loved call failed

libVars == <<l_pc, l_auth_key, l_upstream, watched_items, l_batches,
             check_candidates, loved_statuses, movies_found, series_found,
             loved_items, l_result, l_raised, l_failure, check_errors>>

VARIABLES
    \* ---- the catalog endpoint, get_catalog ----
    c_pc,        \* "start" | "find" | "recommend" | "discover" | "aggregate"
                 \* | "hydrate" | "done"
    c_type,      \* path parameter type
    c_id,        \* path parameter id
    c_tmdb_id,   \* what find_by_imdb_id gave (optional)
    c_media,     \* media_type the metas are built with
    c_items,     \* the TMDB ids handed to _fetch_metadata_for_items
    c_details,   \* details_results: what each _fetch_details task returned,
                 \* in the order of the tasks (Pending until it returns)
    c_response,  \* the HTTP response (optional)
    c_upstream_failed  \* an upstream call of this request has failed

catVars == <<c_pc, c_type, c_id, c_tmdb_id, c_media, c_items, c_details,
             c_response, c_upstream_failed>>

VARIABLES
    \* ---- the token endpoint, create_token ----
    redis_keys,  \* the tokens whose key exists in Redis
    requests     \* per request: pc, payload, token, existing, created, response

tokVars == <<redis_keys, requests>>

VARIABLES
    \* ---- BackgroundCatalogUpdater under concurrent callers ----
    k_task,        \* self._task: index of a loop task, if any
    k_stop_event,  \* self._stop_event.is_set()
    k_tasks,       \* every task start() created: "running" | "finished"
    k_stops,       \* the tasks the suspended stop() calls are awaiting,
                   \* one entry per call (None once the call has returned)
    k_calls        \* start()/stop() calls made so far

lifeVars == <<k_task, k_stop_event, k_tasks, k_stops, k_calls>>

VARIABLES
    \* ---- StremioService.update_catalogs ----
    x_pc,        \* "fetch" | "push" | "done"
    x_addons,    \* the addon collection the Stremio API holds
    x_catalogs,  \* the catalogs argument
    x_pushed,    \* the addons sent with AddonCollectionSet (optional)
    x_result     \* "none" | "success" | "failure" | "raised"

addonVars == <<x_pc, x_addons, x_catalogs, x_pushed, x_result>>

VARIABLES
    \* ---- DynamicCatalogService.get_watched_loved_catalogs ----
    d_pc,        \* "loved" | "watched" | "done"
    d_library,   \* the library_items argument
    d_seen,      \* seen_items
    d_seed,      \* seed
    d_catalogs   \* catalogs

dynVars == <<d_pc, d_library, d_seen, d_seed, d_catalogs>>

vars == <<parseVars, aggVars, cacheVars, updVars, libVars, catVars,
         tokVars,
         lifeVars,
         addonVars,
         dynVars>>

----------------------------------------------------------------------------
(* Bounds *)

\* Largest number of comma separated tokens in a generated identifier.
MaxTokens == 3
\* Largest library (watched list) the library fetcher hands over.
MaxLib == 3
\* Largest source_items_limit, recommendations_per_source and max_results.
MaxSeeds == 2
MaxRecs == 2
MaxResults == 2
\* Longest result page the upstream recommendation endpoint answers with.
MaxPage == 2
\* Largest number of candidates whose detail record is missing or untitled.
MaxDefects == 1

----------------------------------------------------------------------------
(* Optional values *)

None == <<>>
Some(x) == <<x>>
IsNone(o) == o = <<>>
Val(o) == o[1]

----------------------------------------------------------------------------
(* Strings as character sequences *)

Digit == {"0", "1", "2", "3", "4", "5", "6", "7", "8", "9"}
HexDigit == Digit \cup {"A", "B", "C", "D", "E", "F", "a", "b", "c", "d", "e", "f"}
Space == {" "}

DigitVal(c) ==
    CASE c = "0" -> 0 [] c = "1" -> 1 [] c = "2" -> 2 [] c = "3" -> 3
      [] c = "4" -> 4 [] c = "5" -> 5 [] c = "6" -> 6 [] c = "7" -> 7
      [] c = "8" -> 8 [] c = "9" -> 9

DigitChar(n) ==
    CASE n = 0 -> "0" [] n = 1 -> "1" [] n = 2 -> "2" [] n = 3 -> "3"
      [] n = 4 -> "4" [] n = 5 -> "5" [] n = 6 -> "6" [] n = 7 -> "7"
      [] n = 8 -> "8" [] n = 9 -> "9"

\* str.startswith
StartsWith(s, prefix) ==
    /\ Len(s) >= Len(prefix)
    /\ SubSeq(s, 1, Len(prefix)) = prefix

RECURSIVE LStrip(_)
LStrip(s) == IF s # <<>> /\ Head(s) \in Space THEN LStrip(Tail(s)) ELSE s

RECURSIVE RStrip(_)
RStrip(s) ==
    IF s # <<>> /\ s[Len(s)] \in Space THEN RStrip(SubSeq(s, 1, Len(s) - 1)) ELSE s

\* str.strip()
Strip(s) == RStrip(LStrip(s))

\* str.split(sep) for a one-character separator: always at least one piece.
RECURSIVE SplitFrom(_, _, _)
SplitFrom(s, sep, cur) ==
    IF s = <<>> THEN <<cur>>
    ELSE IF Head(s) = sep THEN <<cur>> \o SplitFrom(Tail(s), sep, <<>>)
    ELSE SplitFrom(Tail(s), sep, Append(cur, Head(s)))

Split(s, sep) == SplitFrom(s, sep, <<>>)

\* token.split(":", 1)[1]: the text after the first colon (IndexError when
\* there is none, reported as None).
RECURSIVE AfterFirst(_, _)
AfterFirst(s, sep) ==
    IF s = <<>> THEN None
    ELSE IF Head(s) = sep THEN Some(Tail(s))
    ELSE AfterFirst(Tail(s), sep)

\* The byte a %XX escape stands for, for the escapes whose character is in
\* the alphabet of the model; any other escape decodes to "?".
PercentDecode(h1, h2) ==
    CASE h1 = "2" /\ h2 \in {"C", "c"} -> ","
      [] h1 = "3" /\ h2 \in {"A", "a"} -> ":"
      [] h1 = "2" /\ h2 = "0" -> " "
      [] h1 = "7" /\ h2 = "4" -> "t"
      [] OTHER -> "?"

\* urllib.parse.unquote: %XX escapes are replaced, anything else is kept.
RECURSIVE unquote(_)
unquote(s) ==
    IF s = <<>> THEN <<>>
    ELSE IF /\ Head(s) = "%"
            /\ Len(s) >= 3
            /\ s[2] \in HexDigit
            /\ s[3] \in HexDigit
         THEN <<PercentDecode(s[2], s[3])>> \o unquote(SubSeq(s, 4, Len(s)))
    ELSE <<Head(s)>> \o unquote(Tail(s))

RECURSIVE DigitsValue(_, _)
DigitsValue(s, acc) ==
    IF s = <<>> THEN acc ELSE DigitsValue(Tail(s), 10 * acc + DigitVal(Head(s)))

AllDigits(s) == s # <<>> /\ \A k \in 1..Len(s) : s[k] \in Digit

\* int(text): surrounding blanks are ignored, one sign is allowed, the rest
\* must be decimal digits; None stands for ValueError.
ParseInt(text) ==
    LET t == Strip(text)
        signed == t # <<>> /\ Head(t) \in {"+", "-"}
        body == IF signed THEN Tail(t) ELSE t
    IN  IF ~AllDigits(body) THEN None
        ELSE IF signed /\ Head(t) = "-" THEN Some(0 - DigitsValue(body, 0))
        ELSE Some(DigitsValue(body, 0))

\* str(n) for an integer
RECURSIVE NatToStr(_)
NatToStr(n) == IF n < 10 THEN <<DigitChar(n)>> ELSE NatToStr(n \div 10) \o <<DigitChar(n % 10)>>

IntToStr(n) == IF n < 0 THEN <<"-">> \o NatToStr(0 - n) ELSE NatToStr(n)

TT == <<"t", "t">>
TMDB_PREFIX == <<"t", "m", "d", "b", ":">>

----------------------------------------------------------------------------
(* _parse_identifier, one loop iteration per step *)

\* One pass of the for body over one token: the new (imdb_id, tmdb_id, leave)
\* where leave says that the loop is left by break.
\* (variant: the "is None" guards are missing, so a later token overwrites)
ParseBody_LastWins(tok, imdb, tmdb) ==
    LET token == Strip(tok)
        imdb1 == IF token # <<>> /\ StartsWith(token, TT) THEN Some(token) ELSE imdb
        isTmdb == /\ token # <<>>
                  /\ ~StartsWith(token, TT)
                  /\ StartsWith(token, TMDB_PREFIX)
        parsed == IF isTmdb THEN ParseInt(Val(AfterFirst(token, ":"))) ELSE None
        tmdb1 == IF isTmdb /\ ~IsNone(parsed) THEN parsed ELSE tmdb
    IN  [imdb |-> imdb1, tmdb |-> tmdb1,
         leave |-> token # <<>> /\ ~(isTmdb /\ IsNone(parsed))
                   /\ ~IsNone(imdb1) /\ ~IsNone(tmdb1)]

ParseBody(tok, imdb, tmdb) ==
    LET token == Strip(tok)
        takesImdb == token # <<>> /\ StartsWith(token, TT) /\ IsNone(imdb)
        takesTmdb == /\ token # <<>>
                     /\ ~takesImdb
                     /\ StartsWith(token, TMDB_PREFIX)
                     /\ IsNone(tmdb)
        parsed == IF takesTmdb THEN ParseInt(Val(AfterFirst(token, ":"))) ELSE None
        imdb1 == IF takesImdb THEN Some(token) ELSE imdb
        tmdb1 == IF takesTmdb /\ ~IsNone(parsed) THEN parsed ELSE tmdb
        \* "continue" on an empty token or on ValueError skips the break test
        skipped == token = <<>> \/ (takesTmdb /\ IsNone(parsed))
    IN  [imdb |-> imdb1, tmdb |-> tmdb1,
         leave |-> ~skipped /\ ~IsNone(imdb1) /\ ~IsNone(tmdb1)]

\* The for loop of _parse_identifier from token number k on.
RECURSIVE ParseLoop(_, _, _, _)
ParseLoop(tokens, k, imdb, tmdb) ==
    IF k > Len(tokens) THEN <<imdb, tmdb>>
    ELSE LET r == ParseBody(tokens[k], imdb, tmdb)
         IN  IF r.leave THEN <<r.imdb, r.tmdb>>
             ELSE ParseLoop(tokens, k + 1, r.imdb, r.tmdb)

\* _parse_identifier as a function: <<imdb_id, tmdb_id>>
parse_identifier(identifier) ==
    IF identifier = <<>> THEN <<None, None>>
    ELSE ParseLoop(Split(unquote(identifier), ","), 1, None, None)

\* if not identifier: return None, None; else decode and split
ParseStart ==
    /\ p_pc = "start"
    /\ IF p_identifier = <<>>
       THEN /\ p_pc' = "done"
            /\ p_tokens' = <<>>
       ELSE /\ p_pc' = "loop"
            /\ p_tokens' = Split(unquote(p_identifier), ",")
    /\ UNCHANGED <<p_identifier, p_i, p_imdb_id, p_tmdb_id>>
    /\ UNCHANGED <<aggVars, cacheVars, updVars, libVars, catVars, tokVars, lifeVars, addonVars, dynVars>>

\* one iteration of "for token in decoded.split(',')"
ParseToken ==
    /\ p_pc = "loop"
    /\ p_i < Len(p_tokens)
    /\ LET r == ParseBody(p_tokens[p_i + 1], p_imdb_id, p_tmdb_id)
       IN  /\ p_imdb_id' = r.imdb
           /\ p_tmdb_id' = r.tmdb
           /\ p_i' = p_i + 1
           /\ p_pc' = IF r.leave THEN "done" ELSE "loop"
    /\ UNCHANGED <<p_identifier, p_tokens>>
    /\ UNCHANGED <<aggVars, cacheVars, updVars, libVars, catVars, tokVars, lifeVars, addonVars, dynVars>>

\* the for loop is exhausted: return imdb_id, tmdb_id
ParseReturn ==
    /\ p_pc = "loop"
    /\ p_i = Len(p_tokens)
    /\ p_pc' = "done"
    /\ UNCHANGED <<p_identifier, p_tokens, p_i, p_imdb_id, p_tmdb_id>>
    /\ UNCHANGED <<aggVars, cacheVars, updVars, libVars, catVars, tokVars, lifeVars, addonVars, dynVars>>

\* Token texts the generated identifiers are joined from.
TokenPool ==
    { <<"t", "t", "1", "0", "0", "0", "0", "0", "0">>,
      <<"t", "t", "2">>,
      <<" ", "t", "t", "3", " ">>,
      <<"t", "m", "d", "b", ":", "5", "5">>,
      <<"t", "m", "d", "b", ":", "7">>,
      <<"t", "m", "d", "b", ":", " ", "-", "4">>,
      <<"t", "m", "d", "b", ":", "x">>,
      <<"t", "m", "d", "b", ":">>,
      <<"t", "m", "d", "b", "%", "3", "A", "9">>,
      <<"t", "m", "d", "b">>,
      <<"t", "t", "6", "%", "2", "C", "t", "m", "d", "b", ":", "8">>,
      <<" ">>,
      <<>> }

RECURSIVE Join(_)
Join(toks) ==
    IF toks = <<>> THEN <<>>
    ELSE IF Len(toks) = 1 THEN toks[1]
    ELSE toks[1] \o <<",">> \o Join(Tail(toks))

Identifiers ==
    { Join(ts) : ts \in UNION { [1..n -> TokenPool] : n \in 0..MaxTokens } }

ParseIdle ==
    /\ p_pc = "done"
    /\ p_identifier = <<>>
    /\ p_tokens = <<>>
    /\ p_i = 0
    /\ p_imdb_id = None
    /\ p_tmdb_id = None

ParseInit ==
    /\ p_pc = "start"
    /\ p_identifier \in Identifiers
    /\ p_tokens = <<>>
    /\ p_i = 0
    /\ p_imdb_id = None
    /\ p_tmdb_id = None

ParseNext == ParseStart \/ ParseToken \/ ParseReturn

----------------------------------------------------------------------------
(* Data of the aggregator *)

MOVIE == "movie"
SERIES == "series"

Range(f) == { f[k] : k \in DOMAIN f }

\* s[:n]
Take(s, n) == SubSeq(s, 1, IF n < Len(s) THEN n ELSE Len(s))

\* Library items as get_library_items formats them.
ItemA == [_id |-> <<"t", "t", "1">>, type |-> MOVIE, _mtime |-> 2, name |-> "A"]
ItemB == [_id |-> <<"t", "t", "2">>, type |-> MOVIE, _mtime |-> 2, name |-> "B"]
ItemC == [_id |-> <<"t", "t", "4", ",", "t", "m", "d", "b", ":", "3">>,
          type |-> SERIES, _mtime |-> 1, name |-> "C"]

LibraryPool == {ItemA, ItemB, ItemC}

\* Sequences of pairwise distinct elements of S, of length at most n.
DistinctSeqs(S, n) ==
    { q \in UNION { [1..k -> S] : k \in 0..n } :
        \A i, j \in DOMAIN q : i # j => q[i] # q[j] }

\* watched as get_library_items leaves it: sorted by _mtime, newest first.
WatchedLists ==
    { w \in DistinctSeqs(LibraryPool, MaxLib) :
        \A i, j \in DOMAIN w : i < j => w[i]._mtime >= w[j]._mtime }

\* The sub-sequences of w: loved is collected in the order of watched.
SubSeqsOf(w) ==
    { q \in DistinctSeqs(Range(w), Len(w)) :
        \A i, j \in DOMAIN q : i < j =>
            \E a, b \in DOMAIN w : a < b /\ w[a] = q[i] /\ w[b] = q[j] }

\* TMDB ids the upstream answers with, and the detail record of each.
TmdbIds == 1..4

ImdbOf(n) ==
    CASE n = 1 -> Some(<<"t", "t", "8">>)
      [] n = 2 -> Some(<<"t", "t", "1">>)
      [] n = 3 -> None
      [] n = 4 -> Some(<<"t", "t", "8">>)

\* vote_average in tenths; None when the record has no vote_average
VoteOf(n) ==
    CASE n = 1 -> Some(70)
      [] n = 2 -> Some(70)
      [] n = 3 -> None
      [] n = 4 -> Some(50)

\* Result pages of the recommendation endpoint: ids are unique in a page.
Pages == DistinctSeqs(TmdbIds, MaxPage)

\* Outcome of one detail fetch: a record with a title, a record without
\* a title, or no record (exception, None or an empty body).
DetailOutcomes == {"ok", "notitle", "fail"}

----------------------------------------------------------------------------
(* Pure steps of get_recommendations *)

\* list.sort(key=..., reverse=True) / sorted(..., reverse=True): a stable
\* sort, elements with equal keys keep their order.
RECURSIVE InsertDesc_Unstable(_, _, _)
RECURSIVE InsertDesc(_, _, _)

\* (variant: position i goes before the positions of equal key)
InsertDesc_Unstable(order, i, keys) ==
    IF order = <<>> THEN <<i>>
    ELSE IF keys[Head(order)] > keys[i]
         THEN <<Head(order)>> \o InsertDesc_Unstable(Tail(order), i, keys)
         ELSE <<i>> \o order

InsertDesc(order, i, keys) ==
    IF order = <<>> THEN <<i>>
    ELSE IF keys[Head(order)] >= keys[i]
         THEN <<Head(order)>> \o InsertDesc(Tail(order), i, keys)
         ELSE <<i>> \o order

\* the positions 1..Len(keys) from position i on, inserted one by one
RECURSIVE SortedOrder(_, _, _)
SortedOrder(i, order, keys) ==
    IF i > Len(keys) THEN order
    ELSE SortedOrder(i + 1, InsertDesc(order, i, keys), keys)

SortDesc(s, keys) ==
    LET order == SortedOrder(1, <<>>, keys)
    IN  [k \in 1..Len(s) |-> s[order[k]]]

\* key=lambda x: x.get("_mtime", "") and key=lambda x: x.get("_score", 0)
MtimeKeys(items) == [k \in 1..Len(items) |-> items[k]._mtime]
ScoreKeys(metas) == [k \in 1..Len(metas) |-> metas[k]._score]

\* (variant: the watched pool is used whatever include_watched says)
SelectPool_AlwaysWatched(lib, inc) == lib.watched

\* Step 2: the pool the seeds are taken from
SelectPool(lib, inc) == IF inc THEN lib.watched ELSE lib.loved

\* (variant: the pool is not filtered by type)
SourceItemsOfType_AnyType(pool, ctype) == pool

\* Step 3: [item for item in all_source_items if item.get("type") == content_type]
SourceItemsOfType(pool, ctype) == SelectSeq(pool, LAMBDA item : item.type = ctype)

\* Steps 3 and 4: filter by type, newest first, first source_items_limit
SelectSources(pool, ctype, limit) ==
    LET source_items_of_type == SourceItemsOfType(pool, ctype)
    IN  Take(SortDesc(source_items_of_type, MtimeKeys(source_items_of_type)), limit)

\* Step 4 (second): the exclusion sets built from the watched items
WatchedImdbIds(watched) ==
    { Val(parse_identifier(watched[k]._id)[1]) :
        k \in { j \in DOMAIN watched : ~IsNone(parse_identifier(watched[j]._id)[1]) } }

WatchedTmdbIds(watched) ==
    { Val(parse_identifier(watched[k]._id)[2]) :
        k \in { j \in DOMAIN watched :
                  /\ ~IsNone(parse_identifier(watched[j]._id)[2])
                  /\ Val(parse_identifier(watched[j]._id)[2]) # 0 } }

\* What _fetch_recommendations_from_tmdb can give for one seed: an exception
\* of the upstream call, [] when the id lookup finds nothing or the page is
\* empty, else the first limit entries of the page.
Exc == [exc |-> TRUE, items |-> <<>>]
Batch(items) == [exc |-> FALSE, items |-> items]
Pending == [exc |-> FALSE, items |-> <<0>>]

FetchOutcomes(item_id, limit) ==
    {Exc}
      \cup (IF StartsWith(item_id, TT) THEN {Batch(<<>>)} ELSE {})
      \cup { Batch(Take(page, limit)) : page \in Pages }

\* how many of the fetch tasks have finished
FinishedCount(results) ==
    Cardinality({ j \in DOMAIN results : results[j] # Pending })

\* (variant: the results are listed in the order the tasks finish)
ResultSlot_CompletionOrder(k, finished) == finished + 1

\* asyncio.gather lists the results in the order of its awaitables: the
\* result of the k-th task is the k-th element, whenever it finishes
ResultSlot(k, finished) == k

\* (variant: gather without return_exceptions re-raises the first exception)
GatherRaises_FirstException(results) == \E k \in DOMAIN results : results[k].exc

\* asyncio.gather(*tasks, return_exceptions=True) never raises for a task
GatherRaises(results) == FALSE

\* Step 6: flat_recommendations, batches in seed order, exceptions skipped
RECURSIVE Flatten(_)
Flatten(results) ==
    IF results = <<>> THEN <<>>
    ELSE IF Head(results).exc THEN Flatten(Tail(results))
    ELSE Head(results).items \o Flatten(Tail(results))

\* (variant: the cut-off is max_results instead of its double)
CandidateCap_Single(maxres) == maxres

\* the pre-hydration cut-off
CandidateCap(maxres) == maxres * 2

RECURSIVE FilterCandidates_NoDedupe(_, _, _, _, _)
RECURSIVE FilterCandidates(_, _, _, _, _)

\* (variant: an id that was seen before is taken again)
FilterCandidates_NoDedupe(flat, seen, acc, watchedTmdb, maxres) ==
    IF flat = <<>> THEN acc
    ELSE LET tmdb_id == Head(flat)
         IN  IF tmdb_id = 0 \/ tmdb_id \in watchedTmdb
             THEN FilterCandidates_NoDedupe(Tail(flat), seen, acc, watchedTmdb, maxres)
             ELSE IF Len(acc) + 1 >= CandidateCap(maxres)
                  THEN Append(acc, tmdb_id)
                  ELSE FilterCandidates_NoDedupe(Tail(flat), seen \cup {tmdb_id},
                                                Append(acc, tmdb_id), watchedTmdb, maxres)

\* Step 7: de-duplicate by TMDB id and drop watched TMDB ids, until the cap
FilterCandidates(flat, seen, acc, watchedTmdb, maxres) ==
    IF flat = <<>> THEN acc
    ELSE LET tmdb_id == Head(flat)
         IN  IF tmdb_id = 0 \/ tmdb_id \in seen \/ tmdb_id \in watchedTmdb
             THEN FilterCandidates(Tail(flat), seen, acc, watchedTmdb, maxres)
             ELSE IF Len(acc) + 1 >= CandidateCap(maxres)
                  THEN Append(acc, tmdb_id)
                  ELSE FilterCandidates(Tail(flat), seen \cup {tmdb_id},
                                        Append(acc, tmdb_id), watchedTmdb, maxres)

\* str(details.get("vote_average", ""))
VoteText(vote) == IF IsNone(vote) THEN <<>> ELSE IntToStr(Val(vote))

\* float(meta_data.get("imdbRating", 0)) with ValueError giving 0.0
RatingOf(meta) ==
    LET parsed == ParseInt(meta.imdbRating) IN IF IsNone(parsed) THEN 0 ELSE Val(parsed)

\* The meta _fetch_metadata_for_items builds from the detail record of n
MetaOf(n, media_type) ==
    [id |-> IF IsNone(ImdbOf(n)) THEN <<"t", "m", "d", "b", ":">> \o IntToStr(n)
            ELSE Val(ImdbOf(n)),
     type |-> media_type,
     name |-> "title",
     imdbRating |-> VoteText(VoteOf(n))]

\* _fetch_metadata_for_items: one detail fetch per item, failed and untitled
\* records are dropped, the order of the items is kept
RECURSIVE FetchMetadataForItems(_, _, _)
FetchMetadataForItems(items, media_type, outcome) ==
    IF items = <<>> THEN <<>>
    ELSE IF Head(items) = 0 \/ outcome[Head(items)] # "ok"
         THEN FetchMetadataForItems(Tail(items), media_type, outcome)
         ELSE <<MetaOf(Head(items), media_type)>>
                  \o FetchMetadataForItems(Tail(items), media_type, outcome)

\* position of the entry with this id in unique_recommendations, or 0
IndexOfId(unique, id) ==
    IF \E k \in DOMAIN unique : unique[k].id = id
    THEN CHOOSE k \in DOMAIN unique : unique[k].id = id
    ELSE 0

WithScore(meta, score) ==
    [id |-> meta.id, type |-> meta.type, name |-> meta.name,
     imdbRating |-> meta.imdbRating, _score |-> score]

\* (variant: the watched IMDB ids are not consulted after hydration)
IsExcluded_Never(id, watchedImdb) == FALSE

\* "imdb_id in watched_imdb_ids"
IsExcluded(id, watchedImdb) == id \in watchedImdb

\* (variant: the merge never leaves the loop early)
EnoughResults_Never(unique, maxres) == FALSE

\* "len(unique_recommendations) >= max_results"
EnoughResults(unique, maxres) == Len(unique) >= maxres

\* The loop over final_recommendations: unique_recommendations is a dict,
\* kept here as the sequence of its values in insertion order.
RECURSIVE MergeLoop(_, _, _, _)
MergeLoop(metas, unique, watchedImdb, maxres) ==
    IF metas = <<>> THEN unique
    ELSE LET meta_data == Head(metas)
             imdb_id == meta_data.id
             k == IndexOfId(unique, imdb_id)
             unique1 ==
                 IF k = 0
                 THEN Append(unique, WithScore(meta_data, RatingOf(meta_data)))
                 ELSE [unique EXCEPT ![k]._score = @ + RatingOf(meta_data)]
         IN  IF imdb_id = <<>> \/ IsExcluded(imdb_id, watchedImdb)
             THEN MergeLoop(Tail(metas), unique, watchedImdb, maxres)
             ELSE IF EnoughResults(unique1, maxres)
                  THEN unique1
                  ELSE MergeLoop(Tail(metas), unique1, watchedImdb, maxres)

\* (variant: sorted ascending and then reversed, which turns ties around)
SortByScore_ReversedAscending(unique) ==
    LET asc == SortDesc(unique, [k \in DOMAIN unique |-> 0 - unique[k]._score])
    IN  [k \in DOMAIN asc |-> asc[Len(asc) + 1 - k]]

\* Step 9: sorted(unique_recommendations.values(), key=_score, reverse=True)
SortByScore(unique) == SortDesc(unique, ScoreKeys(unique))

----------------------------------------------------------------------------
(* get_recommendations as a state machine: one action per stretch of code  *)
(* between two awaits                                                      *)

\* From the call to the gather of the per-seed fetches: the library arrives,
\* the seeds are selected and the exclusion sets are built.
AggSelect ==
    /\ a_pc = "start"
    /\ LET pool == SelectPool(library_data, include_watched)
           ofType == IF IsNone(content_type) THEN <<>>
                     ELSE SourceItemsOfType(pool, Val(content_type))
           seeds == IF ofType = <<>> THEN <<>>
                    ELSE SelectSources(pool, Val(content_type), source_items_limit)
       IN  IF seeds = <<>>
           THEN \* one of the three early "return []"
                /\ a_pc' = "done"
                /\ a_result' = <<>>
                /\ a_outcome' = "returned"
                /\ UNCHANGED <<source_items, watched_imdb_ids, watched_tmdb_ids,
                               task_results, out_of_order,
                               all_recommendation_results>>
           ELSE /\ a_pc' = "gather"
                /\ source_items' = seeds
                /\ watched_imdb_ids' = WatchedImdbIds(library_data.watched)
                /\ watched_tmdb_ids' = WatchedTmdbIds(library_data.watched)
                /\ task_results' = [k \in 1..Len(seeds) |-> Pending]
                /\ out_of_order' = FALSE
                /\ all_recommendation_results' = [k \in 1..Len(seeds) |-> Pending]
                /\ UNCHANGED <<a_result, a_outcome>>
    /\ UNCHANGED <<library_data, content_type, source_items_limit,
                   recommendations_per_source, max_results, include_watched,
                   filtered_tmdb_items, detail_outcome, final_recommendations>>
    /\ UNCHANGED <<parseVars, cacheVars, updVars, libVars, catVars, tokVars, lifeVars, addonVars, dynVars>>

\* The fetch task of seed k finishes (the tasks finish in any order).
SeedFetched(k) ==
    /\ a_pc = "gather"
    /\ k \in DOMAIN task_results
    /\ task_results[k] = Pending
    /\ \E r \in FetchOutcomes(source_items[k]._id, recommendations_per_source) :
           /\ task_results' = [task_results EXCEPT ![k] = r]
           /\ all_recommendation_results' =
                  [all_recommendation_results EXCEPT
                      ![ResultSlot(k, FinishedCount(task_results))] = r]
    /\ out_of_order' = (out_of_order \/ \E j \in 1..(k - 1) : task_results[j] = Pending)
    /\ UNCHANGED <<a_pc, library_data, content_type, source_items_limit,
                   recommendations_per_source, max_results, include_watched,
                   source_items, watched_imdb_ids, watched_tmdb_ids,
                   filtered_tmdb_items, detail_outcome, final_recommendations,
                   a_result, a_outcome>>
    /\ UNCHANGED <<parseVars, cacheVars, updVars, libVars, catVars, tokVars, lifeVars, addonVars, dynVars>>

\* The gather returns: flatten, de-duplicate, and start the hydration.
AggFilter ==
    /\ a_pc = "gather"
    /\ \A k \in DOMAIN task_results : task_results[k] # Pending
    /\ IF GatherRaises(all_recommendation_results)
       THEN /\ a_pc' = "done"
            /\ a_outcome' = "raised"
            /\ UNCHANGED filtered_tmdb_items
       ELSE /\ a_pc' = "hydrate"
            /\ filtered_tmdb_items' =
                   FilterCandidates(Flatten(all_recommendation_results), {}, <<>>,
                                    watched_tmdb_ids, max_results)
            /\ UNCHANGED a_outcome
    /\ UNCHANGED <<library_data, content_type, source_items_limit,
                   recommendations_per_source, max_results, include_watched,
                   source_items, watched_imdb_ids, watched_tmdb_ids,
                   task_results, out_of_order,
                   all_recommendation_results, detail_outcome,
                   final_recommendations, a_result>>
    /\ UNCHANGED <<parseVars, cacheVars, updVars, libVars, catVars, tokVars, lifeVars, addonVars, dynVars>>

\* The hydration returns: merge, score, sort and return.
AggMerge ==
    /\ a_pc = "hydrate"
    /\ \E bad \in SUBSET Range(filtered_tmdb_items), kind \in {"notitle", "fail"} :
           /\ Cardinality(bad) <= MaxDefects
           /\ detail_outcome' = [n \in TmdbIds |-> IF n \in bad THEN kind ELSE "ok"]
    /\ final_recommendations' =
           FetchMetadataForItems(filtered_tmdb_items, Val(content_type), detail_outcome')
    /\ a_result' = SortByScore(MergeLoop(final_recommendations', <<>>,
                                          watched_imdb_ids, max_results))
    /\ a_pc' = "done"
    /\ a_outcome' = "returned"
    /\ UNCHANGED <<library_data, content_type, source_items_limit,
                   recommendations_per_source, max_results, include_watched,
                   source_items, watched_imdb_ids, watched_tmdb_ids,
                   task_results, out_of_order,
                   all_recommendation_results, filtered_tmdb_items>>
    /\ UNCHANGED <<parseVars, cacheVars, updVars, libVars, catVars, tokVars, lifeVars, addonVars, dynVars>>

AggIdle ==
    /\ a_pc = "done"
    /\ library_data = [watched |-> <<>>, loved |-> <<>>]
    /\ content_type = None
    /\ source_items_limit = 1
    /\ recommendations_per_source = 1
    /\ max_results = 1
    /\ include_watched = FALSE
    /\ source_items = <<>>
    /\ watched_imdb_ids = {}
    /\ watched_tmdb_ids = {}
    /\ task_results = <<>>
    /\ out_of_order = FALSE
    /\ all_recommendation_results = <<>>
    /\ filtered_tmdb_items = <<>>
    /\ detail_outcome = [n \in TmdbIds |-> "ok"]
    /\ final_recommendations = <<>>
    /\ a_result = <<>>
    /\ a_outcome = "none"

AggInit ==
    /\ a_pc = "start"
    /\ \E w \in WatchedLists :
           library_data \in { [watched |-> w, loved |-> l] : l \in SubSeqsOf(w) }
    /\ content_type \in {None, Some(MOVIE), Some(SERIES)}
    /\ source_items_limit \in 1..MaxSeeds
    /\ recommendations_per_source \in 1..MaxRecs
    /\ max_results \in 1..MaxResults
    /\ include_watched \in BOOLEAN
    /\ source_items = <<>>
    /\ watched_imdb_ids = {}
    /\ watched_tmdb_ids = {}
    /\ task_results = <<>>
    /\ out_of_order = FALSE
    /\ all_recommendation_results = <<>>
    /\ filtered_tmdb_items = <<>>
    /\ detail_outcome = [n \in TmdbIds |-> "ok"]
    /\ final_recommendations = <<>>
    /\ a_result = <<>>
    /\ a_outcome = "none"

AggNext ==
    \/ AggSelect
    \/ \E k \in 1..MaxSeeds : SeedFetched(k)
    \/ AggFilter
    \/ AggMerge

----------------------------------------------------------------------------
(* cached_api_call, _make_cache_key and the _api_cache TTLCache            *)
(* (app/utils.py).  The wrapper runs on the event loop: what lies between  *)
(* two awaits is one step, and the only thing that can happen between the  *)
(* membership test and the read that follows it is the passing of time.    *)

\* CACHE_TTL, in seconds
CACHE_TTL == 86400

\* TTLCache(maxsize=...) of _api_cache, scaled down
ApiCacheMaxSize == 1
\* addresses an object can be allocated at
MaxAddr == 2
\* wrapper invocations in progress at one time
MaxInFlight == 2
\* advances of the timer in one behaviour
MaxTicks == 2

Addrs == 1..MaxAddr
\* the instants the timer is read at: 0, a second before one TTL has gone
\* by, and every second from then on
NextInstant(t) == IF t = 0 THEN CACHE_TTL - 1 ELSE t + 1

\* func_name of the one decorated method
FUNC_NAME == "app.services.stremio_service.StremioService.get_library_items"

\* The service objects a request can construct.  StremioService accepts an
\* auth key alone (username and password stay ""), or username and password;
\* every TMDBService carries the process-wide TMDB_API_KEY.
ServiceObjects ==
    { [cls |-> "StremioService", username |-> "", password |-> "",
       auth_key |-> Some("keyA")],
      [cls |-> "StremioService", username |-> "", password |-> "",
       auth_key |-> Some("keyB")],
      [cls |-> "TMDBService", api_key |-> "tmdb-key"] }

CallArgs == {"x"}

HasAttr(obj, name) == name \in DOMAIN obj

\* object.__repr__, which str() falls back to: class name and address
ObjectRepr(ref) == <<ref.obj.cls, ref.addr>>

\* json.dumps(..., default=str) of one positional argument
JsonDefault(a) == IF "obj" \in DOMAIN a THEN ObjectRepr(a.obj) ELSE a.str

\* _make_cache_key.  md5 of the JSON text is taken to be injective, so the
\* key is the serialised key_data itself (kwargs are not modelled).
MakeCacheKey(func_name, instance, args) ==
    LET instance_key ==
            IF IsNone(instance) THEN None
            ELSE IF HasAttr(Val(instance).obj, "username")
                 THEN Some(Val(instance).obj.username)
            ELSE IF HasAttr(Val(instance).obj, "api_key")
                 THEN Some(Val(instance).obj.api_key)
            ELSE None
    IN  [func |-> func_name,
         instance |-> instance_key,
         args |-> [k \in DOMAIN args |-> JsonDefault(args[k])]]

\* ---- TTLCache ----
\* expiry a second early
Expiry_Short(t) == t + CACHE_TTL - 1

\* link.expires = time + ttl
Expiry(t) == t + CACHE_TTL

\* not (timer() < link.expires) means expired
Live(e, t) == t < e.expires

\* TTLCache.__contains__
Contains(cache, key, t) ==
    \E k \in DOMAIN cache : cache[k].key = key /\ Live(cache[k], t)

Without(cache, key) == SelectSeq(cache, LAMBDA e : e.key # key)

EntryOf(cache, key) == cache[CHOOSE k \in DOMAIN cache : cache[k].key = key]

\* TTLCache.__getitem__: a live entry is read and becomes the most recently
\* used one; anything else is a KeyError
GetItem(cache, key, t) ==
    IF Contains(cache, key, t)
    THEN [cache |-> Append(Without(cache, key), EntryOf(cache, key)),
          result |-> [exc |-> "", value |-> Some(EntryOf(cache, key).value)]]
    ELSE [cache |-> cache,
          result |-> [exc |-> "KeyError", value |-> None]]

\* TTLCache.expire
Expire(cache, t) == SelectSeq(cache, LAMBDA e : Live(e, t))

\* (variant: a store never replaces, it adds a second entry under the key)
SetItem_Append(cache, key, value, t) ==
    [cache |-> Append(Expire(cache, t),
                      [key |-> key, value |-> value, expires |-> Expiry(t)])]

\* TTLCache.__setitem__: expired entries go first, then, for a new key in a
\* full cache, the least recently used one
SetItem(cache, key, value, t) ==
    LET live    == Expire(cache, t)
        present == \E k \in DOMAIN live : live[k].key = key
        evict   == ~present /\ Len(live) >= ApiCacheMaxSize
        kept    == IF present THEN Without(live, key)
                   ELSE IF evict THEN Tail(live) ELSE live
    IN  [cache |-> Append(kept, [key |-> key, value |-> value,
                                 expires |-> Expiry(t)])]

\* what the wrapped method answers at time t for the credentials of self
Upstream(self, arg, t) == [owner |-> self.obj, arg |-> arg, at |-> t]

NoResult == [exc |-> "pending", value |-> None]

\* the wrapper invocations that have not handed their result over yet
InFlight == { i \in DOMAIN calls : ~IsNone(calls[i]) }

\* some wrapper is between its membership test and its read
InHit == \E i \in InFlight : Val(calls[i]).pc = "hit"

\* the entry stored under key, live or not
Stored(cache, key) ==
    IF \E k \in DOMAIN cache : cache[k].key = key
    THEN Some(EntryOf(cache, key)) ELSE None

\* a request constructs a service object; the allocator places it at any
\* address that holds no live object
NewInstance(a, obj) ==
    /\ ~InHit
    /\ IsNone(heap[a])
    /\ heap' = [heap EXCEPT ![a] = Some(obj)]
    /\ UNCHANGED <<api_cache, now, ticks, calls>>
    /\ UNCHANGED <<parseVars, aggVars, updVars, libVars, catVars, tokVars, lifeVars, addonVars, dynVars>>

\* the request ends and its service object is freed
FreeInstance(a) ==
    /\ ~InHit
    /\ ~IsNone(heap[a])
    /\ \A i \in InFlight : Val(calls[i]).self.addr # a
    /\ heap' = [heap EXCEPT ![a] = None]
    /\ UNCHANGED <<api_cache, now, ticks, calls>>
    /\ UNCHANGED <<parseVars, aggVars, updVars, libVars, catVars, tokVars, lifeVars, addonVars, dynVars>>

\* wrapper, up to its first suspension: key, membership test, and on a miss
\* the call of func
CallEnter(a, arg) ==
    /\ ~InHit
    /\ InFlight # DOMAIN calls
    /\ ~IsNone(heap[a])
    /\ LET self      == [addr |-> a, obj |-> Val(heap[a])]
           cache_key == MakeCacheKey(FUNC_NAME, Some(self),
                                     <<[obj |-> self], [str |-> arg]>>)
           hit       == Contains(api_cache, cache_key, now)
           slot      == CHOOSE i \in DOMAIN calls :
                            /\ IsNone(calls[i])
                            /\ \A j \in DOMAIN calls : IsNone(calls[j]) => i <= j
       IN  calls' = [calls EXCEPT ![slot] = Some(
                [self      |-> self,
                 arg       |-> arg,
                 cache_key |-> cache_key,
                 pc        |-> IF hit THEN "hit" ELSE "miss",
                 computed  |-> ~hit,
                 before    |-> Stored(api_cache, cache_key),
                 result    |-> NoResult,
                 t_end     |-> 0])]
    /\ UNCHANGED <<api_cache, now, ticks, heap>>
    /\ UNCHANGED <<parseVars, aggVars, updVars, libVars, catVars, tokVars, lifeVars, addonVars, dynVars>>

\* return _api_cache[cache_key]
CallHit(i) ==
    /\ i \in InFlight
    /\ Val(calls[i]).pc = "hit"
    /\ LET c == Val(calls[i])
           g == GetItem(api_cache, c.cache_key, now)
       IN  /\ api_cache' = g.cache
           /\ calls' = [calls EXCEPT ![i] = Some(
                   [c EXCEPT !.pc = "done", !.result = g.result, !.t_end = now])]
    /\ UNCHANGED <<now, ticks, heap>>
    /\ UNCHANGED <<parseVars, aggVars, updVars, libVars, catVars, tokVars, lifeVars, addonVars, dynVars>>

\* func returns: _api_cache[cache_key] = result; return result
CallStore(i) ==
    /\ ~InHit
    /\ i \in InFlight
    /\ Val(calls[i]).pc = "miss"
    /\ LET c      == Val(calls[i])
           result == Upstream(c.self, c.arg, now)
       IN  /\ api_cache' = SetItem(api_cache, c.cache_key, result, now).cache
           /\ calls' = [calls EXCEPT ![i] = Some(
                   [c EXCEPT !.pc = "done",
                             !.result = [exc |-> "", value |-> Some(result)],
                             !.t_end = now])]
    /\ UNCHANGED <<now, ticks, heap>>
    /\ UNCHANGED <<parseVars, aggVars, updVars, libVars, catVars, tokVars, lifeVars, addonVars, dynVars>>

\* func raises: the exception leaves the wrapper and nothing is stored
CallRaise(i) ==
    /\ ~InHit
    /\ i \in InFlight
    /\ Val(calls[i]).pc = "miss"
    /\ calls' = [calls EXCEPT ![i] = Some(
           [Val(calls[i]) EXCEPT
                !.pc = "done",
                !.result = [exc |-> "upstream", value |-> None],
                !.t_end = now])]
    /\ UNCHANGED <<api_cache, now, ticks, heap>>
    /\ UNCHANGED <<parseVars, aggVars, updVars, libVars, catVars, tokVars, lifeVars, addonVars, dynVars>>

\* the value, or the exception, reaches the caller
CallReturn(i) ==
    /\ ~InHit
    /\ i \in InFlight
    /\ Val(calls[i]).pc = "done"
    /\ calls' = [calls EXCEPT ![i] = None]
    /\ UNCHANGED <<api_cache, now, ticks, heap>>
    /\ UNCHANGED <<parseVars, aggVars, updVars, libVars, catVars, tokVars, lifeVars, addonVars, dynVars>>

\* time passes
Tick ==
    /\ ticks < MaxTicks
    /\ ticks' = ticks + 1
    /\ now' = NextInstant(now)
    /\ UNCHANGED <<api_cache, heap, calls>>
    /\ UNCHANGED <<parseVars, aggVars, updVars, libVars, catVars, tokVars, lifeVars, addonVars, dynVars>>

\* module import: the cache is empty and no request is in progress
CacheInit ==
    /\ api_cache = <<>>
    /\ now = 0
    /\ ticks = 0
    /\ heap = [a \in Addrs |-> None]
    /\ calls = [i \in 1..MaxInFlight |-> None]

CacheNext ==
    \/ \E a \in Addrs, obj \in ServiceObjects : NewInstance(a, obj)
    \/ \E a \in Addrs : FreeInstance(a)
    \/ \E a \in Addrs, arg \in CallArgs : CallEnter(a, arg)
    \/ \E i \in 1..MaxInFlight : CallHit(i)
    \/ \E i \in 1..MaxInFlight : CallStore(i)
    \/ \E i \in 1..MaxInFlight : CallRaise(i)
    \/ \E i \in 1..MaxInFlight : CallReturn(i)
    \/ Tick

----------------------------------------------------------------------------
(* BackgroundCatalogUpdater (app/services/catalog_updater.py), driven by   *)
(* its one owner, the application lifespan, which calls start() and        *)
(* stop() one after the other.                                             *)

\* start()/stop() calls the owner makes in one behaviour
MaxOwnerCalls == 4
\* payloads in the token store
MaxPayloads == 2
\* interval timeouts one loop task lives through
MaxTimeouts == 1

PayloadPool ==
    { [authKey |-> "k", username |-> "",  password |-> ""],
      [authKey |-> "",  username |-> "u", password |-> "p"],
      [authKey |-> "",  username |-> "u", password |-> ""] }

PayloadLists ==
    UNION { [1..n -> PayloadPool] : n \in 0..MaxPayloads }

\* any credential field will do
HasCredentials_AnyField(payload) ==
    \/ payload.authKey # ""
    \/ payload.username # ""
    \/ payload.password # ""

\* _has_credentials
HasCredentials(payload) ==
    \/ payload.authKey # ""
    \/ (payload.username # "" /\ payload.password # "")

\* the interval_seconds arguments the application may pass (it builds the
\* updater only for a positive CATALOG_REFRESH_INTERVAL_SECONDS)
ConfiguredIntervals == {30, 120}

MIN_INTERVAL == 60

\* seconds that pass in one step of the clock while a task waits
TickSeconds == 60

\* __init__: max(60, interval_seconds)
IntervalSeconds(x) == IF x > MIN_INTERVAL THEN x ELSE MIN_INTERVAL

\* what refresh_catalogs_for_credentials does for one record: the library is
\* always fetched first; then either the catalogs are pushed and the call
\* returns, or the push raises, or preparing the catalogs raises before it
RefreshOutcomes == {"updated", "push_failed", "prepare_failed"}

RefreshRaised(e) == e \in {"push_failed", "prepare_failed"}

LibraryFetched(e) == e \in RefreshOutcomes

PushAttempted(e) == e \in {"updated", "push_failed"}

\* asyncio.create_task(self._run()): scheduled, not yet run
NewTask == [pc |-> "created", pos |-> 0, log |-> <<>>, scan_failed |-> FALSE,
            waited |-> 0, timeouts |-> 0,
            stopped_in |-> "", after_stop |-> FALSE]

\* stop() resumes whatever the task is doing
TaskDone_NoWait(t) == TRUE

\* await self._task resumes when the task has finished
TaskDone(t) == tasks[t].pc \in {"finished", "crashed"}

Running == { t \in DOMAIN tasks : tasks[t].pc \notin {"finished", "crashed"} }

\* start()
Start ==
    /\ owner_pc = "idle"
    /\ owner_calls < MaxOwnerCalls
    /\ owner_calls' = owner_calls + 1
    /\ owner_last' = "start"
    /\ IF ~IsNone(u_task)
       THEN UNCHANGED <<u_task, stop_event, tasks>>
       ELSE /\ stop_event' = FALSE
            /\ tasks' = Append(tasks, NewTask)
            /\ u_task' = Some(Len(tasks) + 1)
    /\ UNCHANGED <<payloads, owner_pc, awaited, configured, interval_seconds>>
    /\ UNCHANGED <<parseVars, aggVars, cacheVars, libVars, catVars, tokVars, lifeVars, addonVars, dynVars>>

\* stop(), up to its await
StopBegin ==
    /\ owner_pc = "idle"
    /\ owner_calls < MaxOwnerCalls
    /\ owner_calls' = owner_calls + 1
    /\ IF IsNone(u_task)
       THEN /\ owner_last' = "stop"
            /\ UNCHANGED <<stop_event, tasks, owner_pc, awaited>>
       ELSE /\ stop_event' = TRUE
            /\ awaited' = u_task
            /\ owner_pc' = "in_stop"
            /\ tasks' = [tasks EXCEPT
                            ![Val(u_task)].stopped_in = tasks[Val(u_task)].pc]
            /\ UNCHANGED owner_last
    /\ UNCHANGED <<u_task, payloads, configured, interval_seconds>>
    /\ UNCHANGED <<parseVars, aggVars, cacheVars, libVars, catVars, tokVars, lifeVars, addonVars, dynVars>>

\* stop(), from its await on: self._task = None, return
StopResume ==
    /\ owner_pc = "in_stop"
    /\ TaskDone(Val(awaited))
    /\ u_task' = None
    /\ awaited' = None
    /\ owner_pc' = "idle"
    /\ owner_last' = "stop"
    /\ UNCHANGED <<stop_event, tasks, payloads, owner_calls, configured,
                   interval_seconds>>
    /\ UNCHANGED <<parseVars, aggVars, cacheVars, libVars, catVars, tokVars, lifeVars, addonVars, dynVars>>

\* the loop goes on whatever the event says
LoopContinues_Always(ev) == TRUE

\* _run: while not self._stop_event.is_set()
LoopContinues(ev) == ~ev

\* _run: the loop test; a new pass starts, or the coroutine returns and its
\* locals are gone
LoopTest(t) ==
    /\ t \in DOMAIN tasks
    /\ tasks[t].pc \in {"created", "test"}
    /\ tasks' = [tasks EXCEPT
                    ![t].pc = IF LoopContinues(stop_event) THEN "pass"
                                                           ELSE "finished",
                    ![t].pos = 0,
                    ![t].log = <<>>,
                    ![t].scan_failed = FALSE,
                    ![t].waited = 0,
                    ![t].timeouts = IF LoopContinues(stop_event) THEN @ ELSE 0]
    /\ UNCHANGED <<u_task, stop_event, payloads, owner_pc, owner_last,
                   owner_calls, awaited, configured, interval_seconds>>
    /\ UNCHANGED <<parseVars, aggVars, cacheVars, libVars, catVars, tokVars, lifeVars, addonVars, dynVars>>

\* refresh_all_tokens: the outer except Exception logs what left the scan and
\* the pass returns; uncaught, the exception would end _run
ScanExceptionCaught == TRUE

\* where _run is once the pass is over
AfterPass(raised) ==
    IF raised /\ ~ScanExceptionCaught THEN "crashed" ELSE "wait"

\* the exception of one record's refresh leaves the scan
RecordFailureCaught_Never(e) == FALSE

\* refresh_all_tokens: except Exception around one record's refresh
RecordFailureCaught(e) == RefreshRaised(e)

\* refresh_all_tokens: the next payload is skipped, or refreshed; a failed
\* refresh is logged and the scan goes on (an exception that left the inner
\* try would end the scan in the outer except)
PassStep(t, outcome) ==
    /\ t \in DOMAIN tasks
    /\ tasks[t].pc = "pass"
    /\ tasks[t].pos < Len(payloads)
    /\ LET did   == HasCredentials(payloads[tasks[t].pos + 1])
           entry == IF did THEN outcome ELSE "skipped"
           lost  == did /\ RefreshRaised(outcome)
                        /\ ~RecordFailureCaught(outcome)
       IN  tasks' = [tasks EXCEPT
                ![t].pos = @ + 1,
                ![t].log = Append(@, entry),
                ![t].pc = IF lost THEN AfterPass(TRUE) ELSE "pass",
                ![t].after_stop = @ \/ (did /\ stop_event)]
    /\ UNCHANGED <<u_task, stop_event, payloads, owner_pc, owner_last,
                   owner_calls, awaited, configured, interval_seconds>>
    /\ UNCHANGED <<parseVars, aggVars, cacheVars, libVars, catVars, tokVars, lifeVars, addonVars, dynVars>>

\* refresh_all_tokens returns: the scan is over, or the iteration of the
\* store ended early (iter_payloads logs a Redis failure and stops; any other
\* exception is logged by the outer except); _run enters wait_for
PassEnd(t, scan_failed) ==
    /\ t \in DOMAIN tasks
    /\ tasks[t].pc = "pass"
    /\ IF scan_failed THEN tasks[t].pos < Len(payloads)
                      ELSE tasks[t].pos = Len(payloads)
    /\ tasks' = [tasks EXCEPT ![t].pc = AfterPass(scan_failed),
                              ![t].scan_failed = scan_failed]
    /\ UNCHANGED <<u_task, stop_event, payloads, owner_pc, owner_last,
                   owner_calls, awaited, configured, interval_seconds>>
    /\ UNCHANGED <<parseVars, aggVars, cacheVars, libVars, catVars, tokVars, lifeVars, addonVars, dynVars>>

\* the wait lasts twice the interval
WaitLimit_Double == 2 * interval_seconds

\* wait_for(..., timeout=self.interval_seconds)
WaitLimit == interval_seconds

\* time passes while the task is suspended in wait_for; once the event is
\* set the waiter is woken by the event loop's next iteration
WaitTick(t) ==
    /\ t \in DOMAIN tasks
    /\ tasks[t].pc = "wait"
    /\ ~stop_event
    /\ tasks[t].waited + TickSeconds <= WaitLimit
    /\ tasks' = [tasks EXCEPT ![t].waited = @ + TickSeconds]
    /\ UNCHANGED <<u_task, stop_event, payloads, owner_pc, owner_last,
                   owner_calls, awaited, configured, interval_seconds>>
    /\ UNCHANGED <<parseVars, aggVars, cacheVars, libVars, catVars, tokVars, lifeVars, addonVars, dynVars>>

\* wait_for returns because the stop event is set
WaitWoken(t) ==
    /\ t \in DOMAIN tasks
    /\ tasks[t].pc = "wait"
    /\ stop_event
    /\ tasks' = [tasks EXCEPT ![t].pc = "test"]
    /\ UNCHANGED <<u_task, stop_event, payloads, owner_pc, owner_last,
                   owner_calls, awaited, configured, interval_seconds>>
    /\ UNCHANGED <<parseVars, aggVars, cacheVars, libVars, catVars, tokVars, lifeVars, addonVars, dynVars>>

\* wait_for raises TimeoutError once the timeout has elapsed: continue
WaitTimeout(t) ==
    /\ t \in DOMAIN tasks
    /\ tasks[t].pc = "wait"
    /\ ~stop_event
    /\ tasks[t].timeouts < MaxTimeouts
    /\ tasks[t].waited + TickSeconds > WaitLimit
    /\ tasks' = [tasks EXCEPT ![t].pc = "test",
                              ![t].waited = WaitLimit,
                              ![t].timeouts = @ + 1]
    /\ UNCHANGED <<u_task, stop_event, payloads, owner_pc, owner_last,
                   owner_calls, awaited, configured, interval_seconds>>
    /\ UNCHANGED <<parseVars, aggVars, cacheVars, libVars, catVars, tokVars, lifeVars, addonVars, dynVars>>

UpdIdle ==
    /\ u_task = None
    /\ stop_event = FALSE
    /\ tasks = <<>>
    /\ payloads = <<>>
    /\ owner_pc = "idle"
    /\ owner_last = "none"
    /\ owner_calls = 0
    /\ awaited = None
    /\ configured = MIN_INTERVAL
    /\ interval_seconds = MIN_INTERVAL

\* BackgroundCatalogUpdater.__init__, over every content of the token store
UpdInit ==
    /\ u_task = None
    /\ stop_event = FALSE
    /\ tasks = <<>>
    /\ payloads \in PayloadLists
    /\ owner_pc = "idle"
    /\ owner_last = "none"
    /\ owner_calls = 0
    /\ awaited = None
    /\ configured \in ConfiguredIntervals
    /\ interval_seconds = IntervalSeconds(configured)

\* one step of a loop task that needs no timeout and no failure of the store
TaskStep(t) ==
    \/ LoopTest(t)
    \/ \E o \in RefreshOutcomes : PassStep(t, o)
    \/ PassEnd(t, FALSE)
    \/ WaitWoken(t)

UpdNext ==
    \/ Start
    \/ StopBegin
    \/ StopResume
    \/ \E t \in 1..MaxOwnerCalls : LoopTest(t)
    \/ \E t \in 1..MaxOwnerCalls, o \in RefreshOutcomes : PassStep(t, o)
    \/ \E t \in 1..MaxOwnerCalls, f \in BOOLEAN : PassEnd(t, f)
    \/ \E t \in 1..MaxOwnerCalls : WaitTick(t)
    \/ \E t \in 1..MaxOwnerCalls : WaitWoken(t)
    \/ \E t \in 1..MaxOwnerCalls : WaitTimeout(t)

----------------------------------------------------------------------------
(* StremioService.get_library_items (app/services/stremio_service.py): one *)
(* action per stretch of code between two awaits; the loved-status checks  *)
(* of one batch are in flight together and finish in any order.            *)

\* items in the upstream library collection
MaxRawItems == 3
\* batch_size of the loved scan, scaled down
BatchSize == 2
\* settings.RECOMMENDATION_SOURCE_ITEMS_LIMIT, scaled down
TargetCount == 1

RawItem(id, type, mtime, times, name) ==
    [_id |-> id, type |-> type, _mtime |-> mtime,
     state |-> [timesWatched |-> times], name |-> name]

\* Library items as the datastoreGet call returns them: four watched titles,
\* one that was never watched, one of another type, one with an id of another
\* catalogue, and one without an _id.
RawPool ==
    { RawItem(<<"t", "t", "1">>, MOVIE, 3, 1, "M1"),
      RawItem(<<"t", "t", "2">>, SERIES, 2, 1, "S1"),
      RawItem(<<"t", "t", "3">>, MOVIE, 1, 1, "M2"),
      RawItem(<<"t", "t", "4">>, MOVIE, 0, 1, "M3"),
      RawItem(<<"t", "t", "5">>, MOVIE, 4, 0, "M0"),
      RawItem(<<"t", "t", "6">>, "channel", 4, 1, "CH"),
      RawItem(<<"k", "i", "t", "s", "u", ":", "1">>, SERIES, 4, 1, "K1"),
      [type |-> MOVIE, _mtime |-> 4, state |-> [timesWatched |-> 1], name |-> "X"] }

RawLibraries == DistinctSeqs(RawPool, MaxRawItems)

\* what the datastoreGet call can give: an exception of the client, an error
\* status, a body that is not JSON, a body without "result", or the items
Responses == {"network_error", "http_error", "bad_json", "no_result", "items"}

ResponseFailure(resp) ==
    CASE resp = "network_error" -> "network"
      [] resp = "http_error" -> "network"
      [] resp = "bad_json" -> "malformed"
      [] resp = "no_result" -> "malformed"
      [] OTHER -> "none"

\* client.post, raise_for_status or result.json() raises
ResponseRaises(resp) == resp \in {"network_error", "http_error", "bad_json"}

\* the condition of the watched_items comprehension raises for this item:
\* item.get("_id") is None once the first two tests have passed
FilterRaises(item) ==
    /\ item.state.timesWatched > 0
    /\ item.type \in {MOVIE, SERIES}
    /\ ~HasAttr(item, "_id")

\* the condition of the watched_items comprehension
IsWatched(item) ==
    /\ item.state.timesWatched > 0
    /\ item.type \in {MOVIE, SERIES}
    /\ HasAttr(item, "_id")
    /\ StartsWith(item._id, TT)

\* watched_items after the filter and watched_items.sort(..., reverse=True)
SortedWatched(items) ==
    LET w == SelectSeq(items, IsWatched)
    IN  SortDesc(w, MtimeKeys(w))

\* "Format watched items" / "Format loved items"
FormatItem(item) ==
    [type |-> item.type, _id |-> item._id, _mtime |-> item._mtime,
     name |-> item.name]

FormatItems(items) == [k \in 1..Len(items) |-> FormatItem(items[k])]

EmptyLibrary == [watched |-> <<>>, loved |-> <<>>]

\* (variant: no handler around the body of get_library_items)
Propagates_Always(failure) == TRUE

\* except Exception as e: ... return {"watched": [], "loved": []}
Propagates(failure) == FALSE

\* what is_loved can give for one item; "error" is an exception of the
\* likes client, which is_loved logs and answers with False
LovedAnswers == {"loved", "not_loved", "error"}

\* for i in range(0, len(watched_items), batch_size): the loop has a next i
HasNextBatch == l_batches * BatchSize < Len(watched_items)

\* if movies_found >= target_count and series_found >= target_count: break
BothQuotasMet == movies_found >= TargetCount /\ series_found >= TargetCount

\* (variant: every item of the batch is a candidate)
NeedsCheck_Always(itype, movies, series) == TRUE

\* the tests that fill check_candidates
NeedsCheck(itype, movies, series) ==
    \/ itype = MOVIE /\ movies < TargetCount
    \/ itype # MOVIE /\ itype = SERIES /\ series < TargetCount

\* positions of watched_items[i : i + batch_size] for the batch after n
BatchPositions(n) ==
    LET lo == n * BatchSize + 1
        hi == IF (n + 1) * BatchSize < Len(watched_items)
              THEN (n + 1) * BatchSize ELSE Len(watched_items)
    IN  [k \in 1..(hi - lo + 1) |-> lo + k - 1]

\* the call ends with an exception inside the try block
LibFail(failure) ==
    /\ l_pc' = "done"
    /\ l_failure' = failure
    /\ IF Propagates(failure)
       THEN l_raised' = TRUE /\ l_result' = None
       ELSE l_raised' = FALSE /\ l_result' = Some(EmptyLibrary)

\* get_library_items up to await self.get_auth_key(); the constructor has
\* refused a service without an auth key and without username and password,
\* so the first test finds credentials
LibStart ==
    /\ l_pc = "start"
    /\ l_pc' = "auth"
    /\ UNCHANGED <<l_auth_key, l_upstream, watched_items, l_batches,
                   check_candidates, loved_statuses, movies_found,
                   series_found, loved_items, l_result, l_raised, l_failure,
                   check_errors>>
    /\ UNCHANGED <<parseVars, aggVars, cacheVars, updVars, catVars, tokVars, lifeVars, addonVars, dynVars>>

\* get_auth_key: the cached key, or a login that gives a key or raises
LibAuth(login_ok) ==
    /\ l_pc = "auth"
    /\ IF ~IsNone(l_auth_key)
       THEN /\ l_pc' = "fetch"
            /\ UNCHANGED <<l_auth_key, l_result, l_raised, l_failure>>
       ELSE IF login_ok
            THEN /\ l_pc' = "fetch"
                 /\ l_auth_key' = Some("k")
                 /\ UNCHANGED <<l_result, l_raised, l_failure>>
            ELSE /\ LibFail("auth")
                 /\ UNCHANGED l_auth_key
    /\ UNCHANGED <<l_upstream, watched_items, l_batches, check_candidates,
                   loved_statuses, movies_found, series_found, loved_items,
                   check_errors>>
    /\ UNCHANGED <<parseVars, aggVars, cacheVars, updVars, catVars, tokVars, lifeVars, addonVars, dynVars>>

\* client.post returns or raises; raise_for_status, json(), the filter, the
\* sort and the set-up of the scan
LibFetch(resp) ==
    /\ l_pc = "fetch"
    /\ LET items == IF resp = "items" THEN l_upstream ELSE <<>>
       IN  IF ResponseRaises(resp)
           THEN /\ LibFail(ResponseFailure(resp))
                /\ UNCHANGED watched_items
           ELSE IF \E k \in DOMAIN items : FilterRaises(items[k])
                THEN /\ LibFail("malformed")
                     /\ UNCHANGED watched_items
                ELSE /\ l_pc' = "loop"
                     /\ watched_items' = SortedWatched(items)
                     /\ l_failure' = ResponseFailure(resp)
                     /\ UNCHANGED <<l_result, l_raised>>
    /\ UNCHANGED <<l_auth_key, l_upstream, l_batches, check_candidates,
                   loved_statuses, movies_found, series_found, loved_items,
                   check_errors>>
    /\ UNCHANGED <<parseVars, aggVars, cacheVars, updVars, catVars, tokVars, lifeVars, addonVars, dynVars>>

\* one turn of the for loop up to the gather: the break test, the slice,
\* the candidates; a batch without candidates goes on to the next turn
LibBatch ==
    /\ l_pc = "loop"
    /\ HasNextBatch
    /\ ~BothQuotasMet
    /\ LET batch == BatchPositions(l_batches)
           cands == SelectSeq(batch, LAMBDA p :
                        NeedsCheck(watched_items[p].type, movies_found, series_found))
       IN  /\ l_batches' = l_batches + 1
           /\ check_candidates' = cands
           /\ loved_statuses' = [k \in 1..Len(cands) |-> "pending"]
           /\ l_pc' = IF cands = <<>> THEN "loop" ELSE "checking"
    /\ UNCHANGED <<l_auth_key, l_upstream, watched_items, movies_found,
                   series_found, loved_items, l_result, l_raised, l_failure,
                   check_errors>>
    /\ UNCHANGED <<parseVars, aggVars, cacheVars, updVars, catVars, tokVars, lifeVars, addonVars, dynVars>>

\* the is_loved call of candidate k returns
LibChecked(k, answer) ==
    /\ l_pc = "checking"
    /\ k \in DOMAIN loved_statuses
    /\ loved_statuses[k] = "pending"
    /\ loved_statuses' = [loved_statuses EXCEPT ![k] = answer]
    /\ check_errors' = IF answer = "error"
                       THEN check_errors \cup {check_candidates[k]}
                       ELSE check_errors
    /\ UNCHANGED <<l_pc, l_auth_key, l_upstream, watched_items, l_batches,
                   check_candidates, movies_found, series_found, loved_items,
                   l_result, l_raised, l_failure>>
    /\ UNCHANGED <<parseVars, aggVars, cacheVars, updVars, catVars, tokVars, lifeVars, addonVars, dynVars>>

\* (variant: the gather returns with the first answer)
GatherDone_First(statuses) == \E k \in DOMAIN statuses : statuses[k] # "pending"

\* asyncio.gather returns when every is_loved call has returned
GatherDone(statuses) == \A k \in DOMAIN statuses : statuses[k] # "pending"

\* (variant: the loved candidates of a batch are kept last first)
LovedOf_Reversed(cands, statuses) ==
    LET idx == SelectSeq([k \in 1..Len(cands) |-> k],
                         LAMBDA k : statuses[k] = "loved")
    IN  [j \in 1..Len(idx) |-> watched_items[cands[idx[Len(idx) + 1 - j]]]]

\* "Process results": the loved candidates, in the order of the batch
LovedOf(cands, statuses) ==
    LET idx == SelectSeq([k \in 1..Len(cands) |-> k],
                         LAMBDA k : statuses[k] = "loved")
    IN  [j \in 1..Len(idx) |-> watched_items[cands[idx[j]]]]

CountOfType(items, itype) == Len(SelectSeq(items, LAMBDA it : it.type = itype))

\* the gather returns and the results are processed
LibGather ==
    /\ l_pc = "checking"
    /\ GatherDone(loved_statuses)
    /\ LET found == LovedOf(check_candidates, loved_statuses)
       IN  /\ loved_items' = loved_items \o found
           /\ movies_found' = movies_found + CountOfType(found, MOVIE)
           /\ series_found' = series_found + CountOfType(found, SERIES)
    /\ l_pc' = "loop"
    /\ UNCHANGED <<l_auth_key, l_upstream, watched_items, l_batches,
                   check_candidates, loved_statuses, l_result, l_raised,
                   l_failure, check_errors>>
    /\ UNCHANGED <<parseVars, aggVars, cacheVars, updVars, catVars, tokVars, lifeVars, addonVars, dynVars>>

\* the loop is over (exhausted, or the break): format and return
LibReturn ==
    /\ l_pc = "loop"
    /\ ~HasNextBatch \/ BothQuotasMet
    /\ l_pc' = "done"
    /\ l_result' = Some([watched |-> FormatItems(watched_items),
                          loved |-> FormatItems(loved_items)])
    /\ UNCHANGED <<l_auth_key, l_upstream, watched_items, l_batches,
                   check_candidates, loved_statuses, movies_found,
                   series_found, loved_items, l_raised, l_failure,
                   check_errors>>
    /\ UNCHANGED <<parseVars, aggVars, cacheVars, updVars, catVars, tokVars, lifeVars, addonVars, dynVars>>

LibIdle ==
    /\ l_pc = "done"
    /\ l_auth_key = None
    /\ l_upstream = <<>>
    /\ watched_items = <<>>
    /\ l_batches = 0
    /\ check_candidates = <<>>
    /\ loved_statuses = <<>>
    /\ movies_found = 0
    /\ series_found = 0
    /\ loved_items = <<>>
    /\ l_result = None
    /\ l_raised = FALSE
    /\ l_failure = "none"
    /\ check_errors = {}

\* a service with an auth key, or with a username and a password only
LibInit ==
    /\ l_pc = "start"
    /\ l_auth_key \in {None, Some("k")}
    /\ l_upstream \in RawLibraries
    /\ watched_items = <<>>
    /\ l_batches = 0
    /\ check_candidates = <<>>
    /\ loved_statuses = <<>>
    /\ movies_found = 0
    /\ series_found = 0
    /\ loved_items = <<>>
    /\ l_result = None
    /\ l_raised = FALSE
    /\ l_failure = "none"
    /\ check_errors = {}

LibNext ==
    \/ LibStart
    \/ \E ok \in BOOLEAN : LibAuth(ok)
    \/ \E resp \in Responses : LibFetch(resp)
    \/ LibBatch
    \/ \E k \in 1..BatchSize, a \in LovedAnswers : LibChecked(k, a)
    \/ LibGather
    \/ LibReturn

----------------------------------------------------------------------------
(* get_catalog (app/api/endpoints/catalogs.py) from the point where the    *)
(* credential token has resolved, with get_recommendations_for_item and    *)
(* get_recommendations_for_genre (app/services/recommendation_service.py)  *)
(* and the TMDB calls they make (app/services/tmdb_service.py).            *)

WATCHLY_REC == <<"w", "a", "t", "c", "h", "l", "y", ".", "r", "e", "c">>
WATCHLY_GENRE_PREFIX == <<"w", "a", "t", "c", "h", "l", "y", ".", "g", "e", "n", "r", "e", ".">>

\* self.per_item_limit
PER_ITEM_LIMIT == 20

\* path parameters of the requests
CatalogTypes == {MOVIE, SERIES, "channel"}
CatalogIds ==
    { WATCHLY_REC, <<"t", "t", "1">>, WATCHLY_GENRE_PREFIX \o <<"2">>,
      <<"t", "o", "p">> }

\* the test on id before the try block
ValidCatalogId(id) ==
    \/ id = WATCHLY_REC
    \/ StartsWith(id, TT)
    \/ StartsWith(id, WATCHLY_GENRE_PREFIX)

OkResponse(metas) == [status |-> 200, metas |-> metas]
ErrorResponse(code) == [status |-> code, metas |-> <<>>]

\* except Exception as e: raise HTTPException(status_code=500, ...)
OnException == ErrorResponse(500)

\* find_by_imdb_id: a TMDB id with "movie" or "tv", or (None, None) when
\* nothing is found or when the request fails (every exception is caught)
FindOutcomes ==
    { [tmdb_id |-> Some(n), media |-> m, failed |-> FALSE] :
          n \in TmdbIds, m \in {"movie", "tv"} }
      \cup { [tmdb_id |-> None, media |-> "", failed |-> b] : b \in BOOLEAN }

\* tmdb_service.get_discover(...).get("results", []): _make_request raises
\* on an error status and on a request error
DiscoverOutcomes == {Exc} \cup { Batch(page) : page \in Pages }

\* what get_recommendations returns: it never raises (failed seeds and
\* failed detail fetches are dropped inside), so a list of metas, here the
\* metas of the titles of one page
AggregateResult(page, media_type) ==
    FetchMetadataForItems(page, media_type, [n \in TmdbIds |-> "ok"])

\* the record get_movie_details / get_tv_details answers with for TMDB id n;
\* "notitle" is a record with neither title nor name
DetailRecord(n, outcome) ==
    [id |-> n, title |-> IF outcome = "ok" THEN "title" ELSE ""]

\* a slot of details_results whose task has not returned yet
DetailPending == Some([id |-> 0, title |-> ""])

\* (variant: _fetch_details has no try/except, the gather re-raises)
FetchDetailsRaises_Uncaught(outcome) == outcome = "fail"

\* _fetch_details: "except Exception" logs and returns None
FetchDetailsRaises(outcome) == FALSE

\* what _fetch_details returns for TMDB id n
FetchDetails(n, outcome) ==
    IF outcome = "fail" THEN None ELSE Some(DetailRecord(n, outcome))

\* valid_items = [item for item in items if item.get("id")]
ValidItems(items) == SelectSeq(items, LAMBDA n : n # 0)

\* the loop over details_results: "if not details: continue",
\* "if not title: continue", else the meta is appended
RECURSIVE BuildMetas(_, _)
BuildMetas(details_results, media_type) ==
    IF details_results = <<>> THEN <<>>
    ELSE LET details == Head(details_results)
             rest == BuildMetas(Tail(details_results), media_type)
         IN  IF IsNone(details) \/ Val(details).title = ""
             THEN rest
             ELSE <<[MetaOf(Val(details).id, media_type)
                        EXCEPT !.name = Val(details).title]>> \o rest

\* get_catalog from the validation of the path parameters to the first
\* await of the service call
CatStart ==
    /\ c_pc = "start"
    /\ IF c_type \notin {MOVIE, SERIES} \/ ~ValidCatalogId(c_id)
       THEN /\ c_pc' = "done"
            /\ c_response' = Some(ErrorResponse(400))
       ELSE /\ c_pc' = IF StartsWith(c_id, TT) THEN "find"
                       ELSE IF StartsWith(c_id, WATCHLY_GENRE_PREFIX)
                            THEN "discover" ELSE "aggregate"
            /\ UNCHANGED c_response
    /\ UNCHANGED <<c_type, c_id, c_tmdb_id, c_media, c_items, c_details,
                   c_upstream_failed>>
    /\ UNCHANGED <<parseVars, aggVars, cacheVars, updVars, libVars, tokVars, lifeVars, addonVars, dynVars>>

\* get_recommendations_for_item: find_by_imdb_id returns
CatFind(found) ==
    /\ c_pc = "find"
    /\ c_upstream_failed' = (c_upstream_failed \/ found.failed)
    /\ IF IsNone(found.tmdb_id)
       THEN /\ c_pc' = "done"
            /\ c_response' = Some(OkResponse(<<>>))
            /\ UNCHANGED <<c_tmdb_id, c_media>>
       ELSE /\ c_pc' = "recommend"
            /\ c_tmdb_id' = found.tmdb_id
            /\ c_media' = found.media
            /\ UNCHANGED c_response
    /\ UNCHANGED <<c_type, c_id, c_items, c_details>>
    /\ UNCHANGED <<parseVars, aggVars, cacheVars, updVars, libVars, tokVars, lifeVars, addonVars, dynVars>>

\* get_recommendations_for_item: _fetch_recommendations_from_tmdb returns
\* or raises; nothing between it and get_catalog catches the exception
CatRecommend(r) ==
    /\ c_pc = "recommend"
    /\ r \in FetchOutcomes(IntToStr(Val(c_tmdb_id)), PER_ITEM_LIMIT)
    /\ IF r.exc
       THEN /\ c_pc' = "done"
            /\ c_response' = Some(OnException)
            /\ c_upstream_failed' = TRUE
            /\ UNCHANGED <<c_items, c_details>>
       ELSE IF r.items = <<>>
            THEN /\ c_pc' = "done"
                 /\ c_response' = Some(OkResponse(<<>>))
                 /\ UNCHANGED <<c_items, c_details, c_upstream_failed>>
            ELSE /\ c_pc' = "hydrate"
                 /\ c_items' = ValidItems(r.items)
                 /\ c_details' = [k \in DOMAIN ValidItems(r.items) |-> DetailPending]
                 /\ UNCHANGED <<c_response, c_upstream_failed>>
    /\ UNCHANGED <<c_type, c_id, c_tmdb_id, c_media>>
    /\ UNCHANGED <<parseVars, aggVars, cacheVars, updVars, libVars, tokVars, lifeVars, addonVars, dynVars>>

\* get_recommendations_for_genre: get_discover returns or raises
CatDiscover(r) ==
    /\ c_pc = "discover"
    /\ IF r.exc
       THEN /\ c_pc' = "done"
            /\ c_response' = Some(OnException)
            /\ c_upstream_failed' = TRUE
            /\ UNCHANGED <<c_items, c_details, c_media>>
       ELSE /\ c_pc' = "hydrate"
            /\ c_items' = ValidItems(r.items)
            /\ c_details' = [k \in DOMAIN ValidItems(r.items) |-> DetailPending]
            /\ c_media' = c_type
            /\ UNCHANGED <<c_response, c_upstream_failed>>
    /\ UNCHANGED <<c_type, c_id, c_tmdb_id>>
    /\ UNCHANGED <<parseVars, aggVars, cacheVars, updVars, libVars, tokVars, lifeVars, addonVars, dynVars>>

\* the watchly.rec branch: get_recommendations returns its list
CatAggregate(page, failed) ==
    /\ c_pc = "aggregate"
    /\ c_pc' = "done"
    /\ c_response' = Some(OkResponse(AggregateResult(page, c_type)))
    /\ c_upstream_failed' = failed
    /\ UNCHANGED <<c_type, c_id, c_tmdb_id, c_media, c_items, c_details>>
    /\ UNCHANGED <<parseVars, aggVars, cacheVars, updVars, libVars, tokVars, lifeVars, addonVars, dynVars>>

\* _fetch_metadata_for_items: the _fetch_details task of the k-th valid item
\* returns (the tasks of the gather finish in any order)
CatDetail(k, outcome) ==
    /\ c_pc = "hydrate"
    /\ k \in DOMAIN c_details
    /\ c_details[k] = DetailPending
    /\ c_upstream_failed' = (c_upstream_failed \/ outcome = "fail")
    /\ IF FetchDetailsRaises(outcome)
       THEN /\ c_pc' = "done"
            /\ c_response' = Some(OnException)
            /\ UNCHANGED c_details
       ELSE /\ c_details' = [c_details EXCEPT ![k] = FetchDetails(c_items[k], outcome)]
            /\ UNCHANGED <<c_pc, c_response>>
    /\ UNCHANGED <<c_type, c_id, c_tmdb_id, c_media, c_items>>
    /\ UNCHANGED <<parseVars, aggVars, cacheVars, updVars, libVars, tokVars, lifeVars, addonVars, dynVars>>

\* _fetch_metadata_for_items: the gather returns details_results in the
\* order of the tasks ([] at once when there is no task), the metas are
\* built and get_catalog answers
CatHydrate ==
    /\ c_pc = "hydrate"
    /\ \A k \in DOMAIN c_details : c_details[k] # DetailPending
    /\ c_pc' = "done"
    /\ c_response' = Some(OkResponse(BuildMetas(c_details, c_media)))
    /\ UNCHANGED <<c_type, c_id, c_tmdb_id, c_media, c_items, c_details,
                   c_upstream_failed>>
    /\ UNCHANGED <<parseVars, aggVars, cacheVars, updVars, libVars, tokVars, lifeVars, addonVars, dynVars>>

CatIdle ==
    /\ c_pc = "done"
    /\ c_type = MOVIE
    /\ c_id = WATCHLY_REC
    /\ c_tmdb_id = None
    /\ c_media = ""
    /\ c_items = <<>>
    /\ c_details = <<>>
    /\ c_response = None
    /\ c_upstream_failed = FALSE

\* a request whose token has resolved
CatInit ==
    /\ c_pc = "start"
    /\ c_type \in CatalogTypes
    /\ c_id \in CatalogIds
    /\ c_tmdb_id = None
    /\ c_media = ""
    /\ c_items = <<>>
    /\ c_details = <<>>
    /\ c_response = None
    /\ c_upstream_failed = FALSE

CatNext ==
    \/ CatStart
    \/ \E found \in FindOutcomes : CatFind(found)
    \/ \E r \in DiscoverOutcomes : CatRecommend(r)
    \/ \E r \in DiscoverOutcomes : CatDiscover(r)
    \/ \E page \in Pages, failed \in BOOLEAN : CatAggregate(page, failed)
    \/ \E k \in 1..MaxPage, outcome \in DetailOutcomes : CatDetail(k, outcome)
    \/ CatHydrate

----------------------------------------------------------------------------
(* create_token (app/api/endpoints/tokens.py) with TokenStore.store_payload *)
(* and TokenStore.delete_token (app/services/token_store.py).  Requests are *)
(* coroutines on one event loop: each action is the code of one request    *)
(* between two awaits, and the requests interleave at every await.         *)

\* requests in one behaviour
MaxRequests == 3

\* request bodies, after the stripping of username and authKey
TokenRequests ==
    { [authKey |-> "k", username |-> "",  password |-> ""],
      [authKey |-> "",  username |-> "u", password |-> "p"],
      [authKey |-> "",  username |-> "u", password |-> ""] }

\* the three tests of create_token that answer 400
ValidTokenRequest(payload) ==
    /\ ~(payload.username # "" /\ payload.password = "")
    /\ ~(payload.password # "" /\ payload.username = "")
    /\ ~(payload.authKey = "" /\ ~(payload.username # "" /\ payload.password # ""))

\* _derive_token_value: an HMAC of the canonical payload, taken to be
\* injective, so the token is the canonical payload itself
DeriveTokenValue(payload) ==
    <<payload.authKey, payload.username, payload.password>>

NewRequest(payload) ==
    [pc |-> "start", payload |-> payload, token |-> DeriveTokenValue(payload),
     existing |-> FALSE, created |-> FALSE, response |-> 0]

\* the status a request has answered with (0: none yet)
Answer(r, status) == [requests EXCEPT ![r].pc = "done", ![r].response = status]

\* create_token up to the await in _verify_credentials_or_raise
TokStart(r) ==
    /\ requests[r].pc = "start"
    /\ requests' = IF ValidTokenRequest(requests[r].payload)
                   THEN [requests EXCEPT ![r].pc = "verify"]
                   ELSE Answer(r, 400)
    /\ UNCHANGED redis_keys
    /\ UNCHANGED <<parseVars, aggVars, cacheVars, updVars, libVars, catVars, lifeVars, addonVars, dynVars>>

\* _verify_credentials_or_raise returns the auth key or raises; then
\* store_payload up to "await client.exists(key)"
TokVerify(r, ok) ==
    /\ requests[r].pc = "verify"
    /\ requests' = IF ok THEN [requests EXCEPT ![r].pc = "exists"]
                   ELSE Answer(r, 502)
    /\ UNCHANGED redis_keys
    /\ UNCHANGED <<parseVars, aggVars, cacheVars, updVars, libVars, catVars, lifeVars, addonVars, dynVars>>

\* existing = await client.exists(key); then up to the await of set/setex
TokExists(r) ==
    /\ requests[r].pc = "exists"
    /\ requests' = [requests EXCEPT
                       ![r].pc = "set",
                       ![r].existing = requests[r].token \in redis_keys]
    /\ UNCHANGED redis_keys
    /\ UNCHANGED <<parseVars, aggVars, cacheVars, updVars, libVars, catVars, lifeVars, addonVars, dynVars>>

\* a Redis call of store_payload raises: 503, nothing else happens
TokStoreUnavailable(r) ==
    /\ requests[r].pc \in {"exists", "set"}
    /\ requests' = Answer(r, 503)
    /\ UNCHANGED redis_keys
    /\ UNCHANGED <<parseVars, aggVars, cacheVars, updVars, libVars, catVars, lifeVars, addonVars, dynVars>>

\* return token, not bool(existing)
Created(existing) == ~existing

\* client.set / client.setex returns and store_payload with it; a request
\* that did not create the token answers at once, the other one goes up to
\* the await of refresh_catalogs_for_credentials
TokSet(r) ==
    /\ requests[r].pc = "set"
    /\ redis_keys' = redis_keys \cup {requests[r].token}
    /\ LET created == Created(requests[r].existing)
       IN  requests' = IF created
                       THEN [requests EXCEPT ![r].pc = "refresh", ![r].created = TRUE]
                       ELSE Answer(r, 200)
    /\ UNCHANGED <<parseVars, aggVars, cacheVars, updVars, libVars, catVars, lifeVars, addonVars, dynVars>>

\* refresh_catalogs_for_credentials returns (the request answers) or raises
\* (up to the await in delete_token)
TokRefresh(r, ok) ==
    /\ requests[r].pc = "refresh"
    /\ requests' = IF ok THEN Answer(r, 200)
                   ELSE [requests EXCEPT ![r].pc = "delete"]
    /\ UNCHANGED redis_keys
    /\ UNCHANGED <<parseVars, aggVars, cacheVars, updVars, libVars, catVars, lifeVars, addonVars, dynVars>>

\* await client.delete(key) returns; raise HTTPException(status_code=502)
TokDelete(r) ==
    /\ requests[r].pc = "delete"
    /\ redis_keys' = redis_keys \ {requests[r].token}
    /\ requests' = Answer(r, 502)
    /\ UNCHANGED <<parseVars, aggVars, cacheVars, updVars, libVars, catVars, lifeVars, addonVars, dynVars>>

TokIdle ==
    /\ redis_keys = {}
    /\ requests = <<>>

\* an empty store and MaxRequests requests that have just arrived
TokInit ==
    /\ redis_keys = {}
    /\ requests \in [1..MaxRequests -> { NewRequest(p) : p \in TokenRequests }]

TokNext ==
    \/ \E r \in 1..MaxRequests : TokStart(r)
    \/ \E r \in 1..MaxRequests, ok \in BOOLEAN : TokVerify(r, ok)
    \/ \E r \in 1..MaxRequests : TokExists(r)
    \/ \E r \in 1..MaxRequests : TokStoreUnavailable(r)
    \/ \E r \in 1..MaxRequests : TokSet(r)
    \/ \E r \in 1..MaxRequests, ok \in BOOLEAN : TokRefresh(r, ok)
    \/ \E r \in 1..MaxRequests : TokDelete(r)

----------------------------------------------------------------------------
(* BackgroundCatalogUpdater.start and stop (app/services/catalog_updater.py) *)
(* called from any number of coroutines of the event loop: start() has no   *)
(* await and is one step, stop() is one step up to "await self._task" and   *)
(* one step after it.  Of _run only the end is kept: the loop task returns  *)
(* once it finds the stop event set.                                        *)

\* start()/stop() calls in one behaviour
MaxCalls == 6

\* start()
ConcStart ==
    /\ k_calls < MaxCalls
    /\ k_calls' = k_calls + 1
    /\ IF ~IsNone(k_task)
       THEN UNCHANGED <<k_task, k_stop_event, k_tasks>>
       ELSE /\ k_stop_event' = FALSE
            /\ k_tasks' = Append(k_tasks, "running")
            /\ k_task' = Some(Len(k_tasks) + 1)
    /\ UNCHANGED k_stops
    /\ UNCHANGED <<parseVars, aggVars, cacheVars, updVars, libVars, catVars, tokVars, addonVars, dynVars>>

\* stop(), up to its await
ConcStopBegin ==
    /\ k_calls < MaxCalls
    /\ k_calls' = k_calls + 1
    /\ IF IsNone(k_task)
       THEN UNCHANGED <<k_stop_event, k_stops>>
       ELSE /\ k_stop_event' = TRUE
            /\ k_stops' = Append(k_stops, k_task)
    /\ UNCHANGED <<k_task, k_tasks>>
    /\ UNCHANGED <<parseVars, aggVars, cacheVars, updVars, libVars, catVars, tokVars, addonVars, dynVars>>

\* stop(), from its await on: the awaited task is done, self._task = None
ConcStopResume(s) ==
    /\ s \in DOMAIN k_stops
    /\ ~IsNone(k_stops[s])
    /\ k_tasks[Val(k_stops[s])] = "finished"
    /\ k_task' = None
    /\ k_stops' = [k_stops EXCEPT ![s] = None]
    /\ UNCHANGED <<k_stop_event, k_tasks, k_calls>>
    /\ UNCHANGED <<parseVars, aggVars, cacheVars, updVars, libVars, catVars, tokVars, addonVars, dynVars>>

\* _run: the loop test, or the wait for the event, finds the event set and
\* the coroutine returns
ConcLoopExit(t) ==
    /\ t \in DOMAIN k_tasks
    /\ k_tasks[t] = "running"
    /\ k_stop_event
    /\ k_tasks' = [k_tasks EXCEPT ![t] = "finished"]
    /\ UNCHANGED <<k_task, k_stop_event, k_stops, k_calls>>
    /\ UNCHANGED <<parseVars, aggVars, cacheVars, updVars, libVars, catVars, tokVars, addonVars, dynVars>>

LifeIdle ==
    /\ k_task = None
    /\ k_stop_event = FALSE
    /\ k_tasks = <<>>
    /\ k_stops = <<>>
    /\ k_calls = 0

\* BackgroundCatalogUpdater.__init__
LifeInit == LifeIdle

LifeNext ==
    \/ ConcStart
    \/ ConcStopBegin
    \/ \E s \in 1..MaxCalls : ConcStopResume(s)
    \/ \E t \in 1..MaxCalls : ConcLoopExit(t)

----------------------------------------------------------------------------
(* StremioService.update_catalogs with get_addons and update_addon         *)
(* (app/services/stremio_service.py).                                      *)

\* addons in the collection of the user
MaxAddons == 3
\* catalogs handed to update_catalogs
MaxCatalogs == 2

\* settings.ADDON_ID
ADDON_ID == "com.bimal.watchly"

BASE_CATALOGS ==
    << [type |-> MOVIE, id |-> WATCHLY_REC, name |-> "Recommended", extra |-> <<>>],
       [type |-> SERIES, id |-> WATCHLY_REC, name |-> "Recommended", extra |-> <<>>] >>

\* Installed addons as addonCollectionGet lists them: this addon installed
\* under two tokens, two other addons, and an entry without a manifest.
AddonPool ==
    { [transportUrl |-> "watchly/t1",
       manifest |-> [id |-> ADDON_ID, catalogs |-> <<"old1">>]],
      [transportUrl |-> "watchly/t2",
       manifest |-> [id |-> ADDON_ID, catalogs |-> <<"old2">>]],
      [transportUrl |-> "cinemeta",
       manifest |-> [id |-> "com.linvo.cinemeta", catalogs |-> <<"top">>]],
      [transportUrl |-> "local",
       manifest |-> [id |-> "org.stremio.local", catalogs |-> <<>>]],
      [transportUrl |-> "bare"] }

AddonCollections == DistinctSeqs(AddonPool, MaxAddons)

\* catalogs as refresh_catalogs_for_credentials prepares them
DynamicCatalogPool ==
    { [type |-> MOVIE, id |-> <<"t", "t", "1">>, name |-> "Because you Loved M1",
       extra |-> <<>>],
      [type |-> SERIES, id |-> WATCHLY_GENRE_PREFIX \o <<"2">>, name |-> "Drama",
       extra |-> <<>>] }

CatalogLists == DistinctSeqs(DynamicCatalogPool, MaxCatalogs)

\* addon.get("manifest", {}).get("id")
ManifestId(addon) ==
    IF HasAttr(addon, "manifest") THEN Some(addon.manifest.id) ELSE None

RECURSIVE SetCatalogs_NoBreak(_, _)
RECURSIVE SetCatalogs(_, _)
\* (variant: the loop has no break, every addon with the id is changed)
SetCatalogs_NoBreak(addons, catalogs) ==
    IF addons = <<>> THEN <<>>
    ELSE IF ManifestId(Head(addons)) = Some(ADDON_ID)
         THEN <<[Head(addons) EXCEPT !.manifest.catalogs = catalogs]>>
                  \o SetCatalogs_NoBreak(Tail(addons), catalogs)
         ELSE <<Head(addons)>> \o SetCatalogs_NoBreak(Tail(addons), catalogs)

\* the for loop of update_catalogs: the first addon with the id gets the
\* catalogs, then break
SetCatalogs(addons, catalogs) ==
    IF addons = <<>> THEN <<>>
    ELSE IF ManifestId(Head(addons)) = Some(ADDON_ID)
         THEN <<[Head(addons) EXCEPT !.manifest.catalogs = catalogs]>>
                  \o Tail(addons)
         ELSE <<Head(addons)>> \o SetCatalogs(Tail(addons), catalogs)

\* get_addons returns the collection, the loop runs and update_addon sends
\* the addons; or get_addons raises and so does update_catalogs
AddonFetch(ok) ==
    /\ x_pc = "fetch"
    /\ IF ok
       THEN /\ x_pc' = "push"
            /\ x_pushed' = Some(SetCatalogs(x_addons, BASE_CATALOGS \o x_catalogs))
            /\ UNCHANGED x_result
       ELSE /\ x_pc' = "done"
            /\ x_result' = "raised"
            /\ UNCHANGED x_pushed
    /\ UNCHANGED <<x_addons, x_catalogs>>
    /\ UNCHANGED <<parseVars, aggVars, cacheVars, updVars, libVars, catVars, tokVars, lifeVars, dynVars>>

\* the AddonCollectionSet call returns: the collection the API holds is the
\* one that was sent, unless the call failed
AddonPush(outcome) ==
    /\ x_pc = "push"
    /\ x_pc' = "done"
    /\ x_result' = outcome
    /\ x_addons' = IF outcome = "success" THEN Val(x_pushed) ELSE x_addons
    /\ UNCHANGED <<x_catalogs, x_pushed>>
    /\ UNCHANGED <<parseVars, aggVars, cacheVars, updVars, libVars, catVars, tokVars, lifeVars, dynVars>>

AddonIdle ==
    /\ x_pc = "done"
    /\ x_addons = <<>>
    /\ x_catalogs = <<>>
    /\ x_pushed = None
    /\ x_result = "none"

\* update_catalogs is called, the auth key is at hand
AddonInit ==
    /\ x_pc = "fetch"
    /\ x_addons \in AddonCollections
    /\ x_catalogs \in CatalogLists
    /\ x_pushed = None
    /\ x_result = "none"

AddonNext ==
    \/ \E ok \in BOOLEAN : AddonFetch(ok)
    \/ \E outcome \in {"success", "failure", "raised"} : AddonPush(outcome)

----------------------------------------------------------------------------
(* DynamicCatalogService.get_watched_loved_catalogs and process_items      *)
(* (app/services/catalog.py).                                              *)

LOVED == "Loved"
WATCHED == "Watched"

\* library_items as get_library_items returns them: the formatted watched
\* list, newest first, and a sub-sequence of it as loved; the empty library
\* when the call failed
DynLibraries ==
    LET ok == { q \in RawLibraries : \A k \in DOMAIN q : ~FilterRaises(q[k]) }
        watchedOf == { FormatItems(SortedWatched(lib)) : lib \in ok }
    IN  UNION { { [watched |-> w, loved |-> l] : l \in SubSeqsOf(w) } :
                w \in watchedOf }

\* normalize_type
NormalizeType(type_) == IF type_ = "tv" THEN SERIES ELSE type_

\* build_catalog_entry; the name keeps the label and the title apart
BuildCatalogEntry(item, label) ==
    [type |-> NormalizeType(item.type),
     id |-> item._id,
     name |-> <<"Because you", label, item.name>>,
     extra |-> <<>>]

\* the seed of one label at the start of get_watched_loved_catalogs
NoSeed == [t \in {MOVIE, SERIES} |-> FALSE]

RECURSIVE ProcessItems_IgnoreSeen(_, _, _, _)
RECURSIVE ProcessItems(_, _, _, _)
\* (variant: an item is skipped for its seed only, seen_items is not read)
ProcessItems_IgnoreSeen(items, seen_items, seed, label) ==
    IF items = <<>>
    THEN [entries |-> <<>>, seen_items |-> seen_items, seed |-> seed]
    ELSE LET item == Head(items)
             type_ == NormalizeType(item.type)
         IN  IF seed[type_]
             THEN ProcessItems_IgnoreSeen(Tail(items), seen_items, seed, label)
             ELSE LET rest == ProcessItems_IgnoreSeen(
                                  Tail(items), seen_items \cup {item._id},
                                  [seed EXCEPT ![type_] = TRUE], label)
                  IN  [rest EXCEPT !.entries =
                           <<BuildCatalogEntry(item, label)>> \o @]

\* process_items: the entries it returns, and seen_items and seed as it
\* leaves them
ProcessItems(items, seen_items, seed, label) ==
    IF items = <<>>
    THEN [entries |-> <<>>, seen_items |-> seen_items, seed |-> seed]
    ELSE LET item == Head(items)
             type_ == NormalizeType(item.type)
         IN  IF item._id \in seen_items \/ seed[type_]
             THEN ProcessItems(Tail(items), seen_items, seed, label)
             ELSE LET rest == ProcessItems(
                                  Tail(items), seen_items \cup {item._id},
                                  [seed EXCEPT ![type_] = TRUE], label)
                  IN  [rest EXCEPT !.entries =
                           <<BuildCatalogEntry(item, label)>> \o @]

\* get_watched_loved_catalogs has no await: the loved pass and the watched
\* pass are one step
GetWatchedLovedCatalogs ==
    /\ d_pc = "call"
    /\ LET loved == ProcessItems(d_library.loved, {}, NoSeed, LOVED)
           watched == ProcessItems(d_library.watched, loved.seen_items,
                                   NoSeed, WATCHED)
       IN  /\ d_catalogs' = loved.entries \o watched.entries
           /\ d_seen' = watched.seen_items
           /\ d_seed' = [loved |-> loved.seed, watched |-> watched.seed]
    /\ d_pc' = "done"
    /\ UNCHANGED d_library
    /\ UNCHANGED <<parseVars, aggVars, cacheVars, updVars, libVars, catVars, tokVars, lifeVars, addonVars>>

DynIdle ==
    /\ d_pc = "done"
    /\ d_library = EmptyLibrary
    /\ d_seen = {}
    /\ d_seed = [loved |-> NoSeed, watched |-> NoSeed]
    /\ d_catalogs = <<>>

\* get_watched_loved_catalogs is called with a library
DynInit ==
    /\ d_pc = "call"
    /\ d_library \in DynLibraries
    /\ d_seen = {}
    /\ d_seed = [loved |-> NoSeed, watched |-> NoSeed]
    /\ d_catalogs = <<>>

DynNext == GetWatchedLovedCatalogs

----------------------------------------------------------------------------
(* Specifications *)

\* get_recommendations over every library, argument and upstream answer
Init == AggInit /\ ParseIdle /\ CacheInit /\ UpdIdle /\ LibIdle /\ CatIdle /\ TokIdle /\ LifeIdle /\ AddonIdle /\ DynIdle
Next == AggNext
Spec == Init /\ [][Next]_vars

\* _parse_identifier over every generated identifier
InitParse == ParseInit /\ AggIdle /\ CacheInit /\ UpdIdle /\ LibIdle /\ CatIdle /\ TokIdle /\ LifeIdle /\ AddonIdle /\ DynIdle
SpecParse == InitParse /\ [][ParseNext]_vars

\* cached_api_call over every interleaving of requests, calls and time
InitCache == CacheInit /\ ParseIdle /\ AggIdle /\ UpdIdle /\ LibIdle /\ CatIdle /\ TokIdle /\ LifeIdle /\ AddonIdle /\ DynIdle
SpecCache == InitCache /\ [][CacheNext]_vars

\* BackgroundCatalogUpdater under its owner, over every token store
InitUpdater == UpdInit /\ ParseIdle /\ AggIdle /\ CacheInit /\ LibIdle /\ CatIdle /\ TokIdle /\ LifeIdle /\ AddonIdle /\ DynIdle
SpecUpdater == InitUpdater /\ [][UpdNext]_vars

\* The event loop runs every task that is ready, and a refresh of one record
\* comes back: a loop task that can take a step takes one, and stop() resumes
\* once the task it awaits is done.
SpecUpdaterFair ==
    /\ InitUpdater
    /\ [][UpdNext]_vars
    /\ WF_vars(\E t \in 1..MaxOwnerCalls : TaskStep(t))
    /\ WF_vars(StopResume)

\* get_library_items over every upstream library, response and answer of
\* the loved-status checks, the checks of a batch finishing in any order
InitLibrary == LibInit /\ ParseIdle /\ AggIdle /\ CacheInit /\ UpdIdle /\ CatIdle /\ TokIdle /\ LifeIdle /\ AddonIdle /\ DynIdle
SpecLibrary == InitLibrary /\ [][LibNext]_vars

\* get_catalog over every path parameter and every answer of the upstream
InitCatalog ==
    CatInit /\ ParseIdle /\ AggIdle /\ CacheInit /\ UpdIdle /\ LibIdle /\ TokIdle /\ LifeIdle /\ AddonIdle /\ DynIdle
SpecCatalog == InitCatalog /\ [][CatNext]_vars

\* create_token over every interleaving of MaxRequests requests
InitTokens ==
    TokInit /\ ParseIdle /\ AggIdle /\ CacheInit /\ UpdIdle /\ LibIdle /\ CatIdle /\ LifeIdle /\ AddonIdle /\ DynIdle
SpecTokens == InitTokens /\ [][TokNext]_vars

\* start() and stop() of one updater called from concurrent coroutines
InitLifecycle ==
    LifeInit /\ ParseIdle /\ AggIdle /\ CacheInit /\ UpdIdle /\ LibIdle /\ CatIdle /\ TokIdle /\ AddonIdle /\ DynIdle
SpecLifecycle == InitLifecycle /\ [][LifeNext]_vars

\* update_catalogs over every addon collection and catalogs argument
InitAddons ==
    /\ AddonInit /\ ParseIdle /\ AggIdle /\ CacheInit /\ UpdIdle /\ LibIdle
    /\ CatIdle /\ TokIdle /\ LifeIdle /\ DynIdle
SpecAddons == InitAddons /\ [][AddonNext]_vars

\* get_watched_loved_catalogs over every library get_library_items returns
InitDynamic ==
    /\ DynInit /\ ParseIdle /\ AggIdle /\ CacheInit /\ UpdIdle /\ LibIdle
    /\ CatIdle /\ TokIdle /\ LifeIdle /\ AddonIdle
SpecDynamic == InitDynamic /\ [][DynNext]_vars

----------------------------------------------------------------------------
(* Properties of _parse_identifier *)

\* The stripped tokens of the decoded identifier.
DecodedTokens(id) ==
    LET raw == Split(unquote(id), ",") IN [k \in 1..Len(raw) |-> Strip(raw[k])]

IsImdbToken(t) == StartsWith(t, TT)
IsTmdbToken(t) ==
    StartsWith(t, TMDB_PREFIX) /\ ~IsNone(ParseInt(SubSeq(t, 6, Len(t))))

\* Index of the first token satisfying P, or 0.
FirstIndex(toks, P(_)) ==
    IF \E k \in 1..Len(toks) : P(toks[k])
    THEN CHOOSE k \in 1..Len(toks) : P(toks[k]) /\ \A j \in 1..(k - 1) : ~P(toks[j])
    ELSE 0

ExpectedImdb(id) ==
    LET toks == DecodedTokens(id)
        k == FirstIndex(toks, IsImdbToken)
    IN  IF id = <<>> \/ k = 0 THEN None ELSE Some(toks[k])

ExpectedTmdb(id) ==
    LET toks == DecodedTokens(id)
        k == FirstIndex(toks, IsTmdbToken)
    IN  IF id = <<>> \/ k = 0 THEN None ELSE ParseInt(SubSeq(toks[k], 6, Len(toks[k])))

\* Number of tokens the scan looks at: up to the one that completes the pair.
ExpectedScanned(id) ==
    LET toks == DecodedTokens(id)
        a == FirstIndex(toks, IsImdbToken)
        b == FirstIndex(toks, IsTmdbToken)
    IN  IF id = <<>> THEN 0
        ELSE IF a = 0 \/ b = 0 THEN Len(toks)
        ELSE IF a > b THEN a ELSE b

Id_tt1000000_tmdb55 ==
    <<"t", "t", "1", "0", "0", "0", "0", "0", "0", ",", "t", "m", "d", "b", ":", "5", "5">>
Id_tmdb55 == <<"t", "m", "d", "b", ":", "5", "5">>
Id_tt1000000 == <<"t", "t", "1", "0", "0", "0", "0", "0", "0">>

\* C7: _parse_identifier returns the first token starting with "tt" as the
\* IMDB id and the value of the first parseable "tmdb:<n>" token as the
\* numeric id, looks at no token after the one that completes the pair, and
\* yields ("tt1000000", 55) for "tt1000000,tmdb:55", (None, 55) for "tmdb:55"
\* and (None, None) for "".
C7_ParseIdentifier ==
    p_pc = "done" =>
        /\ p_imdb_id = ExpectedImdb(p_identifier)
        /\ p_tmdb_id = ExpectedTmdb(p_identifier)
        /\ p_i = ExpectedScanned(p_identifier)
        /\ p_identifier = Id_tt1000000_tmdb55 =>
               p_imdb_id = Some(Id_tt1000000) /\ p_tmdb_id = Some(55)
        /\ p_identifier = Id_tmdb55 => p_imdb_id = None /\ p_tmdb_id = Some(55)
        /\ p_identifier = <<>> => p_imdb_id = None /\ p_tmdb_id = None

\* C7 witness: a scan that found both ids and stopped before the last token.
C7_Witness ==
    /\ p_pc = "done"
    /\ ~IsNone(p_imdb_id)
    /\ ~IsNone(p_tmdb_id)
    /\ p_i < Len(p_tokens)

----------------------------------------------------------------------------
(* Properties of get_recommendations *)

Returned == a_pc = "done" /\ a_outcome = "returned"

\* The canonical identifier of TMDB title n: its IMDB id, else "tmdb:<n>".
Canonical(n) ==
    IF IsNone(ImdbOf(n)) THEN <<"t", "m", "d", "b", ":">> \o IntToStr(n)
    ELSE Val(ImdbOf(n))

\* The exclusion set of the user: every id of a watched item, in the
\* namespace it was recorded in.
ExclusionImdb ==
    { Val(ExpectedImdb(it._id)) :
        it \in { w \in Range(library_data.watched) : ~IsNone(ExpectedImdb(w._id)) } }

ExclusionTmdb ==
    { Val(ExpectedTmdb(it._id)) :
        it \in { w \in Range(library_data.watched) : ~IsNone(ExpectedTmdb(w._id)) } }

ExclusionSet ==
    ExclusionImdb \cup { <<"t", "m", "d", "b", ":">> \o IntToStr(n) : n \in ExclusionTmdb }

\* The batches of the seeds whose fetch did not fail, in seed order.
OkSeeds == { k \in DOMAIN all_recommendation_results : ~all_recommendation_results[k].exc }
FailedSeeds == DOMAIN all_recommendation_results \ OkSeeds

RECURSIVE ConcatOk(_)
ConcatOk(k) ==
    IF k > Len(all_recommendation_results) THEN <<>>
    ELSE (IF k \in OkSeeds THEN all_recommendation_results[k].items ELSE <<>>)
             \o ConcatOk(k + 1)

\* The TMDB ids seed k recommended.
RecommendedBy(k) ==
    IF k \in OkSeeds THEN Range(all_recommendation_results[k].items) ELSE {}

Recommended == UNION { RecommendedBy(k) : k \in DOMAIN all_recommendation_results }

\* Rating (vote_average, tenths) of title n; 0 when it has none.
Rating(n) == IF IsNone(VoteOf(n)) THEN 0 ELSE Val(VoteOf(n))

ResultIds == { a_result[k].id : k \in DOMAIN a_result }

\* C1: with at least one source item the aggregator returns at most
\* max_results entries and they are ordered by _score, non-increasing.
C1_BoundedAndSorted ==
    (Returned /\ source_items # <<>>) =>
        /\ Len(a_result) <= max_results
        /\ \A i, j \in DOMAIN a_result : i < j => a_result[i]._score >= a_result[j]._score

\* C1 witness: more hydrated entries than max_results, a full result whose
\* scores really differ.
C1_Witness ==
    /\ Returned
    /\ source_items # <<>>
    /\ Len(final_recommendations) > max_results
    /\ Len(a_result) = max_results
    /\ Len(a_result) >= 2
    /\ a_result[1]._score > a_result[2]._score

\* Sum of f over a finite set of integers.
RECURSIVE SumOver(_, _)
SumOver(S, f) ==
    IF S = {} THEN 0
    ELSE LET x == CHOOSE y \in S : TRUE IN f[x] + SumOver(S \ {x}, f)

\* Sum of the ratings of the per-seed occurrences of the title with
\* canonical id cid.
OccurrenceScore(cid) ==
    SumOver(DOMAIN all_recommendation_results,
            [k \in DOMAIN all_recommendation_results |->
                SumOver({ n \in RecommendedBy(k) : Canonical(n) = cid },
                        [n \in TmdbIds |-> Rating(n)])])

\* C2 (as claimed): a title that two distinct seeds recommend appears
\* exactly once in the output and its _score is the sum of the ratings of
\* its per-seed occurrences.
C2_ScoreIsSumOverSeeds ==
    Returned =>
        \A n \in TmdbIds :
            (/\ \E k1, k2 \in OkSeeds : k1 # k2 /\ n \in RecommendedBy(k1) /\ n \in RecommendedBy(k2)
             /\ Canonical(n) \in ResultIds)
            => /\ Cardinality({ k \in DOMAIN a_result : a_result[k].id = Canonical(n) }) = 1
               /\ \A k \in DOMAIN a_result :
                      a_result[k].id = Canonical(n) =>
                          a_result[k]._score = OccurrenceScore(Canonical(n))

\* C3: no returned entry has a canonical id of the exclusion set.
C3_NoExcludedEntry ==
    Returned => \A k \in DOMAIN a_result : a_result[k].id \notin ExclusionSet

\* C3 witness: something is returned although a title excluded through the
\* IMDB namespace was recommended by two seeds and a title excluded through
\* the TMDB namespace was recommended as well.
C3_Witness ==
    /\ Returned
    /\ a_result # <<>>
    /\ \E n \in TmdbIds :
           /\ Canonical(n) \in ExclusionImdb
           /\ \E k1, k2 \in OkSeeds : k1 # k2 /\ n \in RecommendedBy(k1) /\ n \in RecommendedBy(k2)
    /\ \E n \in Recommended : n \in ExclusionTmdb

\* The titles that qualify: recommended, hydrated with a title, not excluded.
Qualifies(n) ==
    /\ detail_outcome[n] = "ok"
    /\ n \notin ExclusionTmdb
    /\ Canonical(n) \notin ExclusionSet

QualifyingIds == { Canonical(n) : n \in { m \in Recommended : Qualifies(m) } }

BestRating(cid) ==
    LET rs == { Rating(n) : n \in { m \in Recommended : Qualifies(m) /\ Canonical(m) = cid } }
    IN  CHOOSE r \in rs : \A q \in rs : r >= q

\* C4 (as claimed): with more qualifying distinct entries than max_results,
\* exactly max_results entries are returned and none of them scores lower
\* than a qualifying entry that was left out.
C4_TopScoresReturned ==
    (Returned /\ Cardinality(QualifyingIds) > max_results) =>
        /\ Len(a_result) = max_results
        /\ \A k \in DOMAIN a_result : \A cid \in QualifyingIds \ ResultIds :
               a_result[k]._score >= BestRating(cid)

\* First occurrences of the elements of s, in order.
RECURSIVE Dedup(_, _)
Dedup(s, seen) ==
    IF s = <<>> THEN <<>>
    ELSE IF Head(s) \in seen THEN Dedup(Tail(s), seen)
    ELSE <<Head(s)>> \o Dedup(Tail(s), seen \cup {Head(s)})

\* The candidates that reach hydration: distinct unwatched TMDB ids in
\* candidate order, the first 2 * max_results of them.
HydratedCandidates ==
    Take(Dedup(SelectSeq(ConcatOk(1), LAMBDA n : n \notin ExclusionTmdb), {}), 2 * max_results)

\* The canonical ids of the qualifying ones among them, first occurrences.
FirstQualifyingIds ==
    LET q == SelectSeq(HydratedCandidates, Qualifies)
    IN  Dedup([k \in DOMAIN q |-> Canonical(q[k])], {})

\* C4 (amended): with more qualifying distinct entries than max_results, the
\* returned entries are the first max_results qualifying distinct entries,
\* in candidate order, among the first 2 * max_results de-duplicated
\* unwatched candidates (all of them when fewer qualify there).
C4_FirstQualifyingReturned ==
    (Returned /\ Cardinality(QualifyingIds) > max_results) =>
        /\ Len(a_result) = Len(Take(FirstQualifyingIds, max_results))
        /\ ResultIds = Range(Take(FirstQualifyingIds, max_results))

\* C4 witness: a full result that leaves out a qualifying entry rated higher
\* than a returned one.
C4_Witness ==
    /\ Returned
    /\ Cardinality(QualifyingIds) > max_results
    /\ Len(a_result) = max_results
    /\ \E k \in DOMAIN a_result : \E cid \in QualifyingIds \ ResultIds :
           a_result[k]._score < BestRating(cid)

\* The result the pipeline gives for a flat candidate list.
ResultFor(flat) ==
    LET capped == Take(Dedup(SelectSeq(flat, LAMBDA n : n \notin ExclusionTmdb), {}),
                       2 * max_results)
        metas == FetchMetadataForItems(capped, Val(content_type), detail_outcome)
    IN  SortByScore(MergeLoop(metas, <<>>, ExclusionImdb, max_results))

\* C5: failed seed fetches never abort the aggregation; the result is the
\* one computed from the non-failing seeds alone, and it is the empty list
\* when every seed fails.
C5_FailedSeedsIsolated ==
    (a_pc = "done" /\ source_items # <<>>) =>
        /\ a_outcome = "returned"
        /\ a_result = ResultFor(ConcatOk(1))
        /\ OkSeeds = {} => a_result = <<>>

\* C5 witness: one seed failed, another did not, and entries are returned.
C5_Witness ==
    /\ Returned
    /\ FailedSeeds # {}
    /\ OkSeeds # {}
    /\ a_result # <<>>

\* C6: every seed is an item of the loved pool when include_watched is
\* false and an item of the watched pool when it is true.
C6_SeedsFromChosenPool ==
    \A k \in DOMAIN source_items :
        /\ ~include_watched => \E j \in DOMAIN library_data.loved :
                                    library_data.loved[j] = source_items[k]
        /\ include_watched => \E j \in DOMAIN library_data.watched :
                                   library_data.watched[j] = source_items[k]

\* C6 witness: seeds were selected from the loved pool while a watched item
\* of the requested type is not loved.
C6_Witness ==
    /\ source_items # <<>>
    /\ ~include_watched
    /\ \E j \in DOMAIN library_data.watched :
           /\ library_data.watched[j].type = Val(content_type)
           /\ library_data.watched[j] \notin Range(library_data.loved)

----------------------------------------------------------------------------
(* Properties of cached_api_call *)

Done(i) == i \in InFlight /\ Val(calls[i]).pc = "done"

ReturnedValue(v) == [exc |-> "", value |-> Some(v)]

EntryLeftBy(c, t) ==
    [key |-> c.cache_key, value |-> Val(c.result.value),
     expires |-> t + CACHE_TTL]

\* slot i takes the step from func's return to the wrapper's return
StoresNow(i) ==
    /\ i \in InFlight
    /\ Val(calls[i]).pc = "miss"
    /\ Val(calls'[i]).pc = "done"
    /\ Val(calls'[i]).result.exc = ""

C9_NoCrossScopeValue ==
    /\ \A i \in InFlight :
           (Done(i) /\ Val(calls[i]).result.exc = "")
               => Val(Val(calls[i]).result.value).owner = Val(calls[i]).self.obj
    /\ \A i \in InFlight :
           \A k \in DOMAIN api_cache :
               api_cache[k].key = Val(calls[i]).cache_key
                   => api_cache[k].value.owner = Val(calls[i]).self.obj

----------------------------------------------------------------------------
(* Properties of BackgroundCatalogUpdater *)

\* the owner's last call was stop(), and it has returned
StopReturned == owner_pc = "idle" /\ owner_last = "stop"

\* C10: once stop() has returned, every loop task start() ever created has
\* finished: no refresh pass and no interval wait of the updater is running
\* or pending, and the updater holds no task.
C10_StopReturnsAfterLoop ==
    StopReturned => (Running = {} /\ IsNone(u_task))

\* stop() has returned twice: the first time it had signalled a task in the
\* middle of a pass, which refreshed a payload before it finished, the
\* second time a task in its interval wait
C10_Witness ==
    /\ StopReturned
    /\ Len(tasks) = 2
    /\ tasks[1].stopped_in = "pass"
    /\ tasks[1].after_stop
    /\ tasks[2].stopped_in = "wait"

\* The scheduler's state as the owner sees it.
SchedulerState ==
    IF IsNone(u_task) THEN "Stopped"
    ELSE IF stop_event THEN "StopRequested" ELSE "Running"

SchedulerMoves ==
    { <<"Stopped", "Running">>, <<"Running", "StopRequested">>,
      <<"StopRequested", "Stopped">> }

Larger(a, b) == IF a > b THEN a ELSE b

\* A pass that the store let run to its end has handled every record.
FullPass(task) ==
    task.scan_failed \/ Len(task.log) = Len(payloads)

\* One step of the loop of task t keeps the alternation: a wait starts only
\* at the end of a pass, a pass starts only when the task starts or when a
\* wait is over, and the task ends only at the loop test.
Alternates(t) ==
    LET old == tasks[t].pc
        new == tasks'[t].pc
    IN  old # new =>
          /\ new = "wait" => (old = "pass" /\ FullPass(tasks'[t]))
          /\ new = "test" => old = "wait"
          /\ new = "pass" => (old \in {"created", "test"} /\ ~stop_event)
          /\ new = "finished" => (old \in {"created", "test"} /\ stop_event)

\* C11: the scheduler moves only Stopped -> Running -> StopRequested ->
\* Stopped; while running it alternates one pass over the stored records
\* with one wait of at most max(60, interval_seconds) seconds; and once a
\* stop is requested it reaches Stopped, every step of the pass in progress
\* coming back.
C11_SchedulerLifecycle ==
    /\ [][ SchedulerState' # SchedulerState
              => <<SchedulerState, SchedulerState'>> \in SchedulerMoves ]_vars
    /\ [][ \A t \in DOMAIN tasks : Alternates(t) ]_vars
    /\ [](\A t \in DOMAIN tasks :
            tasks[t].waited <= Larger(MIN_INTERVAL, configured))
    /\ ((SchedulerState = "StopRequested") ~> (SchedulerState = "Stopped"))

\* A task was stopped in a wait that had lasted its whole interval after a
\* full pass, and the scheduler went through the three states and is
\* running again.
C11_Witness ==
    /\ Len(tasks) = 2
    /\ tasks[1].pc = "finished"
    /\ tasks[1].stopped_in = "wait"
    /\ SchedulerState = "Running"
    /\ tasks[2].pc = "wait"
    /\ tasks[2].waited = interval_seconds
    /\ Len(tasks[2].log) = MaxPayloads
    /\ configured < MIN_INTERVAL

\* Usable credentials: an auth key, or both a username and a password.
UsableCredentials(payload) ==
    payload.authKey # "" \/ (payload.username # "" /\ payload.password # "")

\* The refresh of record k of the pass of task t was attempted.
Attempted(t, k) == tasks[t].log[k] # "skipped"

\* C12: a refresh that fails for one record does not end the pass: when the
\* pass has returned and the store iteration was not cut short, every record
\* with usable credentials has had its refresh attempted, whatever happened
\* to the records before it; and no pass ends with an exception.
C12_RecordFailureIsolated ==
    \A t \in DOMAIN tasks :
        /\ tasks[t].pc # "crashed"
        /\ (tasks[t].pc = "wait" /\ ~tasks[t].scan_failed) =>
              /\ Len(tasks[t].log) = Len(payloads)
              /\ \A k \in 1..Len(payloads) :
                    UsableCredentials(payloads[k]) => Attempted(t, k)

\* A pass has returned in which the refresh of the first record failed and
\* the second record was refreshed.
C12_Witness ==
    \E t \in DOMAIN tasks :
        /\ tasks[t].pc = "wait"
        /\ ~tasks[t].scan_failed
        /\ tasks[t].log = <<"prepare_failed", "updated">>

\* Where task t is, "none" before it is created.
PcOf(t) == IF t \in DOMAIN tasks THEN tasks[t].pc ELSE "none"

\* C19: once the stop event is set, a task in its wait does no more waiting
\* and leaves the wait; no task starts a pass; and a task inside a pass stays
\* in it until the pass has handled every record the store yields.
C19_StopDuringWaitAndPass ==
    /\ [][ \A t \in DOMAIN tasks :
              /\ (stop_event /\ tasks[t].pc = "wait") =>
                    \/ tasks'[t] = tasks[t]
                    \/ /\ tasks'[t].pc = "test"
                       /\ tasks'[t].waited = tasks[t].waited
              /\ (stop_event /\ tasks[t].pc # "pass") => tasks'[t].pc # "pass"
              /\ (stop_event /\ tasks[t].pc = "pass") =>
                    \/ tasks'[t].pc = "pass"
                    \/ tasks'[t].pc = "wait" /\ FullPass(tasks'[t]) ]_vars
    /\ \A t \in 1..MaxOwnerCalls :
          (stop_event /\ PcOf(t) = "wait") ~> (PcOf(t) = "finished")

\* stop() found the task inside a pass; the task refreshed a record after the
\* signal and has ended, and stop() has not resumed yet.
C19_Witness ==
    /\ Len(tasks) = 1
    /\ tasks[1].pc = "finished"
    /\ tasks[1].stopped_in = "pass"
    /\ tasks[1].after_stop
    /\ owner_pc = "in_stop"

\* C20: in a pass, a record is skipped exactly when it has no usable
\* credentials; a skipped record gets no library fetch and no catalog push,
\* and every other record gets the library fetch that starts a refresh.
C20_RefreshIffCredentials ==
    \A t \in DOMAIN tasks :
        \A k \in 1..Len(tasks[t].log) :
            LET e == tasks[t].log[k]
            IN  /\ (e = "skipped") <=> ~UsableCredentials(payloads[k])
                /\ (e = "skipped") => (~LibraryFetched(e) /\ ~PushAttempted(e))
                /\ (e # "skipped") => LibraryFetched(e)

\* A pass has skipped a record that has a username and no password and has
\* refreshed the record after it.
C20_Witness ==
    \E t \in DOMAIN tasks :
        /\ Len(tasks[t].log) = 2
        /\ payloads[1].username # "" /\ payloads[1].password = ""
        /\ payloads[1].authKey = ""
        /\ tasks[t].log[1] = "skipped"
        /\ tasks[t].log[2] = "updated"

----------------------------------------------------------------------------
(* Further properties of get_recommendations *)

\* The pool the request asks for, and its items of the requested type.
ChosenPool ==
    IF include_watched THEN library_data.watched ELSE library_data.loved

PoolOfType ==
    IF IsNone(content_type) THEN <<>>
    ELSE SelectSeq(ChosenPool, LAMBDA item : item.type = Val(content_type))

PosIn(s, x) == CHOOSE i \in DOMAIN s : s[i] = x

\* The items of f, newest first, items of equal _mtime in the order of f.
NewestFirst(f) ==
    CHOOSE r \in [1..Len(f) -> Range(f)] :
        /\ Range(r) = Range(f)
        /\ \A i, j \in DOMAIN r : i < j =>
              \/ r[i]._mtime > r[j]._mtime
              \/ /\ r[i]._mtime = r[j]._mtime
                 /\ PosIn(f, r[i]) < PosIn(f, r[j])

ExpectedSeeds == Take(NewestFirst(PoolOfType), source_items_limit)

\* C15: once the seeds are selected they are the first source_items_limit
\* items of the chosen pool restricted to the requested type, newest first,
\* items of equal modification time in the pool's order; when there is no
\* such item the call has returned an empty list.
C15_SeedsAreNewestOfPool ==
    a_pc # "start" =>
        IF ExpectedSeeds = <<>>
        THEN a_outcome = "returned" /\ a_result = <<>> /\ source_items = <<>>
        ELSE source_items = ExpectedSeeds

\* Two seeds of equal modification time were selected, in the pool's order,
\* which is not the order of their ids.
C15_Witness ==
    /\ a_pc = "gather"
    /\ source_items = <<ItemB, ItemA>>
    /\ ItemA._mtime = ItemB._mtime

\* The batches the fetch tasks returned, concatenated in the order of the
\* seeds from seed k on; a failed fetch contributes nothing.
RECURSIVE SeedOrderConcat(_)
SeedOrderConcat(k) ==
    IF k > Len(task_results) THEN <<>>
    ELSE (IF task_results[k].exc THEN <<>> ELSE task_results[k].items)
             \o SeedOrderConcat(k + 1)

\* C16: whatever order the per-seed fetches finish in, the candidates and
\* the returned list are the ones computed from the batches taken in the
\* order of the seeds.
C16_CompletionOrderIrrelevant ==
    (a_pc \in {"hydrate", "done"} /\ source_items # <<>>) =>
        /\ filtered_tmdb_items =
              Take(Dedup(SelectSeq(SeedOrderConcat(1),
                                   LAMBDA n : n \notin ExclusionTmdb), {}),
                   2 * max_results)
        /\ Returned => a_result = ResultFor(SeedOrderConcat(1))

\* The fetch of the second seed finished before the fetch of the first, the
\* two batches differ, and both candidates were returned, the first seed's
\* first.
C16_Witness ==
    /\ Returned
    /\ out_of_order
    /\ Len(task_results) = 2
    /\ ~task_results[1].exc /\ ~task_results[2].exc
    /\ task_results[1].items # <<>>
    /\ task_results[2].items # <<>>
    /\ Range(task_results[1].items) \cap Range(task_results[2].items) = {}
    /\ Len(filtered_tmdb_items) >= 2
    /\ filtered_tmdb_items[1] = task_results[1].items[1]
    /\ a_result # <<>>

\* Position of the first occurrence of x in s.
FirstPos(s, x) == CHOOSE i \in DOMAIN s : s[i] = x /\ \A j \in 1..(i - 1) : s[j] # x

\* C17: the candidates handed to hydration are pairwise distinct TMDB ids
\* taken from the flattened batches, none of them a watched TMDB id, in the
\* order of their first occurrence, and at most max_results * 2 of them.
C17_CandidatesDistinctUnwatchedCapped ==
    (a_pc \in {"hydrate", "done"} /\ source_items # <<>>) =>
        LET f == filtered_tmdb_items
            flat == ConcatOk(1)
        IN  /\ \A i, j \in DOMAIN f : i # j => f[i] # f[j]
            /\ \A i \in DOMAIN f : f[i] \in Range(flat) /\ f[i] \notin ExclusionTmdb
            /\ \A i, j \in DOMAIN f :
                  i < j => FirstPos(flat, f[i]) < FirstPos(flat, f[j])
            /\ Len(f) <= max_results * 2

\* The flattened batches repeat an id and hold a watched one, and the list
\* handed to hydration is full.
C17_Witness ==
    /\ a_pc = "hydrate"
    /\ \E i, j \in DOMAIN ConcatOk(1) : i # j /\ ConcatOk(1)[i] = ConcatOk(1)[j]
    /\ \E i \in DOMAIN ConcatOk(1) : ConcatOk(1)[i] \in ExclusionTmdb
    /\ Len(filtered_tmdb_items) = max_results * 2
    /\ Len(filtered_tmdb_items) < Len(ConcatOk(1))

----------------------------------------------------------------------------
(* Properties of get_library_items *)

LibReturned == l_pc = "done" /\ ~IsNone(l_result)

\* The call met a failure: of the login, of the library call, of the shape
\* of its response, or of a loved-status check.
MetFailure == l_failure # "none" \/ check_errors # {}

ExpectedWatched ==
    LET w == SelectSeq(l_upstream,
                 LAMBDA it : /\ it.state.timesWatched > 0
                             /\ it.type \in {MOVIE, SERIES}
                             /\ StartsWith(it._id, TT))
    IN  FormatItems(NewestFirst(w))

FoundOfType(p) ==
    IF watched_items[p].type = MOVIE THEN movies_found ELSE series_found

\* C18: the checks of a batch are issued only when no check of the batch
\* before is still pending; while the checks of a batch are in flight, each
\* is for an item whose type had not met its quota when the batch started;
\* and no batch is started once both quotas are met.
C18_BatchesInSequence ==
    /\ [][ (l_pc # "checking" /\ l_pc' = "checking") =>
              \A k \in DOMAIN loved_statuses : loved_statuses[k] # "pending" ]_vars
    /\ [](l_pc = "checking" =>
              \A k \in DOMAIN check_candidates :
                  FoundOfType(check_candidates[k]) < TargetCount)
    /\ [][ l_batches' > l_batches =>
              ~(movies_found >= TargetCount /\ series_found >= TargetCount) ]_vars

\* The first batch found a loved movie and no loved series; the second batch
\* has been started and its movie is not checked.
C18_Witness ==
    /\ l_pc = "loop"
    /\ l_batches = 2
    /\ Len(watched_items) = 3
    /\ watched_items[3].type = MOVIE
    /\ movies_found >= TargetCount
    /\ series_found < TargetCount
    /\ check_candidates = <<>>

----------------------------------------------------------------------------
(* Properties of get_catalog *)

\* C14: a request that got past the validation of its path parameters and
\* met a failing upstream call is answered with a metas list, not with an
\* error response.
C14_NoErrorOnUpstreamFailure ==
    (c_pc = "done" /\ c_upstream_failed) => Val(c_response).status = 200

----------------------------------------------------------------------------
(* Properties of _fetch_metadata_for_items *)

\* The hydration of the request has returned its list.
Hydrated == c_pc = "done" /\ c_details # <<>>

\* Positions of the candidates whose detail fetch gave a record with a title.
KeptPositions ==
    { k \in DOMAIN c_details :
          ~IsNone(c_details[k]) /\ Val(c_details[k]).title # "" }

\* C21: hydration isolates failures per candidate: the answer is a list (no
\* error), it has exactly one entry for every candidate whose detail fetch
\* gave a record with a title, in the order of the candidates, a candidate
\* whose fetch failed or whose record has no title has no entry, and every
\* entry has a non-empty id and a non-empty name.
C21_HydrationIsolatesFailures ==
    Hydrated =>
        LET metas == Val(c_response).metas IN
        /\ Val(c_response).status = 200
        /\ Len(metas) = Cardinality(KeptPositions)
        /\ \A k \in KeptPositions :
               metas[Cardinality({ j \in KeptPositions : j <= k })].id
                   = Canonical(c_items[k])
        /\ \A i \in DOMAIN metas : metas[i].id # <<>> /\ metas[i].name # ""

\* A hydration of two candidates where the first detail fetch failed and the
\* second gave a titled record, which is the one entry of the answer.
C21_Witness ==
    /\ Hydrated
    /\ Len(c_details) = 2
    /\ IsNone(c_details[1])
    /\ 2 \in KeptPositions
    /\ Len(Val(c_response).metas) = 1
    /\ Val(c_response).metas[1].id = Canonical(c_items[2])

----------------------------------------------------------------------------
(* Order of the final list of get_recommendations *)

\* The ids of the hydrated metas, in the order the merge loop walks them: an
\* entry is inserted when its id is met for the first time.
HydratedIds == [k \in DOMAIN final_recommendations |-> final_recommendations[k].id]

\* C22: in the returned list two entries with the same score are in the
\* order in which the merge inserted them (the final sort is stable).
C22_TiesKeepInsertionOrder ==
    Returned =>
        \A i, j \in DOMAIN a_result :
            (i < j /\ a_result[i]._score = a_result[j]._score)
                => FirstPos(HydratedIds, a_result[i].id)
                       < FirstPos(HydratedIds, a_result[j].id)

\* A returned list of two entries with one score, the entry that was
\* inserted first standing first although its id is the larger one.
C22_Witness ==
    /\ Returned
    /\ Len(a_result) = 2
    /\ a_result[1]._score = a_result[2]._score
    /\ a_result[1].id = <<"t", "t", "8">>
    /\ a_result[2].id = <<"t", "t", "1">>
    /\ FirstPos(HydratedIds, a_result[1].id) < FirstPos(HydratedIds, a_result[2].id)

----------------------------------------------------------------------------
(* Concurrent calls of cached_api_call under one key *)

\* Another invocation with the key of slot i is in progress and has invoked
\* func as well: neither found an entry the other had stored.
RacesWith(i, j) ==
    /\ j \in InFlight
    /\ j # i
    /\ Val(calls[j]).cache_key = Val(calls[i]).cache_key
    /\ Val(calls[j]).computed

EntriesUnder(cache, key) == { k \in DOMAIN cache : cache[k].key = key }

\* v is what func gave for the call in slot i when it returned at time t.
OwnCompute(v, i, t) ==
    /\ v.owner = Val(calls[i]).self.obj
    /\ v.arg = Val(calls[i]).arg
    /\ v.at = t

----------------------------------------------------------------------------
(* get_recommendations without a source item *)

\* C24: when the chosen pool is empty or holds no item of the requested
\* type (or no type is requested), no fetch task is ever created (no id lookup, no recommendation
\* fetch), no candidate is ever handed to the hydration (no detail fetch),
\* and once the call is over it has returned the empty list.
C24_NoSourceNoUpstreamCall ==
    PoolOfType = <<>> =>
        /\ source_items = <<>>
        /\ task_results = <<>>
        /\ all_recommendation_results = <<>>
        /\ filtered_tmdb_items = <<>>
        /\ final_recommendations = <<>>
        /\ a_pc \in {"start", "done"}
        /\ a_pc = "done" => (a_outcome = "returned" /\ a_result = <<>>)

\* The call is over for a request for movies whose chosen pool, the loved
\* items, holds a series only, while a movie has been watched.
C24_Witness ==
    /\ a_pc = "done"
    /\ content_type = Some(MOVIE)
    /\ ~include_watched
    /\ library_data.loved # <<>>
    /\ PoolOfType = <<>>
    /\ \E k \in DOMAIN library_data.watched : library_data.watched[k].type = MOVIE
    /\ a_result = <<>>

----------------------------------------------------------------------------
(* The loved list of get_library_items *)

\* s is a sub-sequence of w: its items are items of w, in the order of w.
IsSubSequence(s, w) ==
    \E f \in [DOMAIN s -> DOMAIN w] :
        /\ \A i \in DOMAIN s : s[i] = w[f[i]]
        /\ \A i, j \in DOMAIN s : i < j => f[i] < f[j]

\* C25: in every result the loved list is a sub-sequence of the watched
\* list, and the watched list is in the order of modification time,
\* newest first.
C25_LovedSubSequenceOfWatched ==
    LibReturned =>
        LET watched == Val(l_result).watched
            loved == Val(l_result).loved
        IN  /\ IsSubSequence(loved, watched)
            /\ \A i, j \in DOMAIN watched :
                   i < j => watched[i]._mtime >= watched[j]._mtime

\* Three watched titles of which the second and the third, found in two
\* batches, are the loved ones.
C25_Witness ==
    /\ LibReturned
    /\ Len(Val(l_result).watched) = 3
    /\ Val(l_result).loved
           = <<Val(l_result).watched[2], Val(l_result).watched[3]>>
    /\ l_batches = 2

\* C26, as stated: the loved list never holds more than TargetCount movies
\* nor more than TargetCount series.
C26_LovedWithinLimit ==
    LibReturned =>
        /\ CountOfType(Val(l_result).loved, MOVIE) <= TargetCount
        /\ CountOfType(Val(l_result).loved, SERIES) <= TargetCount

\* Positions in the watched list of the loved items of one type.
LovedPositions(itype) ==
    { p \in DOMAIN Val(l_result).watched :
          /\ Val(l_result).watched[p].type = itype
          /\ Val(l_result).watched[p] \in Range(Val(l_result).loved) }

\* The batch of the scan that position p of the watched list falls in.
BatchOf(p) == (p - 1) \div BatchSize

\* The quota of a type is only tested when a batch is put together: the
\* loved items of the type are the first TargetCount of them and whatever
\* else of the type is loved in the batch that holds the TargetCount-th.
QuotaPerBatch(itype) ==
    LET P == LovedPositions(itype)
        below(p) == Cardinality({ q \in P : q < p })
    IN  \A p \in P :
            below(p) >= TargetCount =>
                \E q \in P : below(q) = TargetCount - 1 /\ BatchOf(q) = BatchOf(p)

\* C26 (amended): a type's loved items may exceed TargetCount only by items
\* of the batch in which the quota was met, so there are at most
\* TargetCount - 1 + BatchSize of each type.
C26_LovedWithinLimitPlusBatch ==
    LibReturned =>
        /\ QuotaPerBatch(MOVIE)
        /\ QuotaPerBatch(SERIES)
        /\ CountOfType(Val(l_result).loved, MOVIE) <= TargetCount - 1 + BatchSize
        /\ CountOfType(Val(l_result).loved, SERIES) <= TargetCount - 1 + BatchSize

\* Three watched movies: the two of the first batch are loved, which is
\* more than TargetCount, and the third was never checked.
C26_Witness ==
    /\ LibReturned
    /\ Len(Val(l_result).watched) = 3
    /\ \A p \in 1..3 : Val(l_result).watched[p].type = MOVIE
    /\ Val(l_result).loved = <<Val(l_result).watched[1], Val(l_result).watched[2]>>
    /\ CountOfType(Val(l_result).loved, MOVIE) > TargetCount
    /\ l_batches = 2
    /\ check_candidates = <<>>

----------------------------------------------------------------------------
(* Concurrent create_token requests *)

\* Request r has answered 200 with its token.
Succeeded(r) == requests[r].pc = "done" /\ requests[r].response = 200

\* C27: a token handed out in a successful response is in the store when the
\* response is produced and stays there whatever the other requests do (no
\* other request's rollback deletes it); and a step that deletes a token is
\* the rollback of a request that created it and whose refresh failed.
C27_IssuedTokenStaysStored ==
    /\ [](\A r \in DOMAIN requests :
              Succeeded(r) => requests[r].token \in redis_keys)
    /\ [][ \A t \in redis_keys \ redis_keys' :
              \E r \in DOMAIN requests :
                  /\ requests[r].pc = "delete"
                  /\ requests[r].created
                  /\ requests[r].token = t
                  /\ requests'[r].response = 502 ]_vars

----------------------------------------------------------------------------
(* start() and stop() under concurrent callers *)

\* The loop tasks that have been created and have not returned.
LoopTasks == { t \in DOMAIN k_tasks : k_tasks[t] = "running" }

\* C28: whatever the order and the overlap of the start() and stop() calls,
\* at most one loop task exists at a time; a start() that finds a task
\* creates none, and a start() that finds none clears the stop event and
\* creates one.
C28_AtMostOneLoopTask ==
    /\ [](Cardinality(LoopTasks) <= 1)
    /\ [][ Len(k_tasks') > Len(k_tasks) =>
              /\ IsNone(k_task)
              /\ ~k_stop_event'
              /\ k_task' = Some(Len(k_tasks')) ]_vars

\* ---- C29 ----
\* position of the first addon whose manifest id is ADDON_ID, 0 when none
FirstMatch(addons) ==
    LET hits == { k \in DOMAIN addons : ManifestId(addons[k]) = Some(ADDON_ID) }
    IN  IF hits = {} THEN 0
        ELSE CHOOSE k \in hits : \A h \in hits : k <= h

\* C29: the addons update_catalogs sends are the fetched ones, as many and in
\* the same order; only the manifest catalogs of the addon with ADDON_ID (the
\* first one when several carry it) differ, and they are BASE_CATALOGS
\* followed by the supplied catalogs; with no such addon the collection is
\* sent as it was fetched.
C29_OnlyOwnCatalogsChange ==
    x_pc = "push" =>
        LET sent == Val(x_pushed)
            m == FirstMatch(x_addons)
        IN  /\ Len(sent) = Len(x_addons)
            /\ \A k \in DOMAIN sent : k # m => sent[k] = x_addons[k]
            /\ m = 0 => sent = x_addons
            /\ m # 0 =>
                  /\ sent[m].manifest.catalogs = BASE_CATALOGS \o x_catalogs
                  /\ sent[m] = [x_addons[m] EXCEPT !.manifest.catalogs =
                                                     BASE_CATALOGS \o x_catalogs]

\* two installs of this addon behind another addon, catalogs supplied: the
\* first install is changed, the rest is sent as fetched
C29_Witness ==
    /\ x_pc = "push"
    /\ Len(x_addons) = 3
    /\ FirstMatch(x_addons) = 2
    /\ ManifestId(x_addons[3]) = Some(ADDON_ID)
    /\ x_catalogs # <<>>
    /\ Val(x_pushed)[2] # x_addons[2]
    /\ Val(x_pushed)[3] = x_addons[3]

\* ---- C30 ----
LabelOf(catalog) == catalog.name[2]

CatalogsOf(label, t) ==
    { k \in DOMAIN d_catalogs :
        LabelOf(d_catalogs[k]) = label /\ d_catalogs[k].type = t }

\* the items of a type that can still seed a catalog, in library order
Eligible(items, t, used) ==
    SelectSeq(items, LAMBDA item : NormalizeType(item.type) = t /\ item._id \notin used)

\* the catalog the first eligible item gives, if there is one
FromFirstEligible(items, t, used, label) ==
    IF Eligible(items, t, used) = <<>> THEN {}
    ELSE {BuildCatalogEntry(Head(Eligible(items, t, used)), label)}

LovedCatalogIds == { d_catalogs[k].id : k \in CatalogsOf(LOVED, MOVIE) \cup CatalogsOf(LOVED, SERIES) }

\* C30: the catalogs get_watched_loved_catalogs returns hold at most one
\* Loved and one Watched catalog per media type, four at most, no item id
\* twice, every Loved catalog before every Watched one; the Loved catalog of
\* a type is built from the first loved item of the type, the Watched one
\* from the first watched item of the type that seeds no Loved catalog.
C30_OneCatalogPerLabelAndType ==
    d_pc = "done" =>
        /\ \A label \in {LOVED, WATCHED}, t \in {MOVIE, SERIES} :
              Cardinality(CatalogsOf(label, t)) <= 1
        /\ Len(d_catalogs) <= 4
        /\ \A k \in DOMAIN d_catalogs :
              /\ LabelOf(d_catalogs[k]) \in {LOVED, WATCHED}
              /\ d_catalogs[k].type \in {MOVIE, SERIES}
        /\ \A i, j \in DOMAIN d_catalogs : i # j => d_catalogs[i].id # d_catalogs[j].id
        /\ \A i, j \in DOMAIN d_catalogs :
              LabelOf(d_catalogs[i]) = LOVED /\ LabelOf(d_catalogs[j]) = WATCHED => i < j
        /\ \A t \in {MOVIE, SERIES} :
              /\ { d_catalogs[k] : k \in CatalogsOf(LOVED, t) }
                    = FromFirstEligible(d_library.loved, t, {}, LOVED)
              /\ { d_catalogs[k] : k \in CatalogsOf(WATCHED, t) }
                    = FromFirstEligible(d_library.watched, t, LovedCatalogIds, WATCHED)

\* the newest watched movie is loved: it seeds the Loved catalog and the
\* Watched movie catalog comes from the next watched movie
C30_Witness ==
    /\ d_pc = "done"
    /\ Len(d_catalogs) = 3
    /\ d_catalogs[1] = BuildCatalogEntry(d_library.watched[1], LOVED)
    /\ \E k \in CatalogsOf(WATCHED, MOVIE), n \in DOMAIN d_library.watched :
          /\ n > 1
          /\ d_library.watched[1].type = MOVIE
          /\ d_catalogs[k] = BuildCatalogEntry(d_library.watched[n], WATCHED)

====
